---- MODULE Spec2Model ----
(***************************************************************************)
(* Model of the diem installer (cli/src): the package installation         *)
(* pipeline of PackageManager, the command linking of AppManager and the   *)
(* install / update / remove commands of main.rs, over an explicit model   *)
(* of the install root (a tree of directories, files and symbolic links)   *)
(* and of the executable-search directory (a set of named links).          *)
(* The resolution of an app across providers and subscriptions              *)
(* (ProviderManager::find_app) and the subscription list of                *)
(* ArtifactoryManager are modelled over the same catalog; each of the three *)
(* parts has its own specification (Spec, SpecResolve, SpecConfig).         *)
(***************************************************************************)
EXTENDS Integers, Sequences, FiniteSets, TLC

VARIABLES
    registry,  \* the apps the configured source serves (fixed during a run)
    fs,      \* the install root: real path -> node
    links,   \* the executable-search directory: link name -> target path
    last,    \* outcome of the last operation (history, never read by the code)
    providers,                 \* Config::providers as ProviderManager holds them
    subscribed_artifactories,  \* Config::subscribed_artifactories
    out,     \* outcome of the last find_app / subscription command (history)
    clock,   \* number of subscriptions added so far (history)
    added_at \* subscription name -> value of clock when it was added (history)

vars == <<registry, fs, links, last, providers, subscribed_artifactories, out, clock, added_at>>

----------------------------------------------------------------------------
(* Bounds *)

\* symbolic links followed while resolving one path before giving up (ELOOP)
MaxLinkDepth == 4

\* subscriptions added in one run of the subscription commands
MaxClock == 4

\* components of the longest path the system lets a call create
MaxPathLen == 4

----------------------------------------------------------------------------
(* Filesystem: paths are sequences of names relative to the install root   *)

NoPath == <<"?">>
None == "none"

Dir == [k |-> "dir"]
Link(t) == [k |-> "link", to |-> t]

IsPrefix(p, q) == Len(p) <= Len(q) /\ SubSeq(q, 1, Len(p)) = p

Parent(p) == SubSeq(p, 1, Len(p) - 1)

\* the real node a path denotes, following symbolic links in every component
RECURSIVE Real(_, _, _, _)
Real(f, done, rest, fuel) ==
    IF rest = <<>> THEN done
    ELSE LET p == Append(done, Head(rest)) IN
         IF p \notin DOMAIN f THEN NoPath
         ELSE IF f[p].k = "link"
              THEN IF fuel = 0 THEN NoPath
                   ELSE Real(f, <<>>, f[p].to \o Tail(rest), fuel - 1)
         ELSE IF f[p].k = "file" /\ Tail(rest) # <<>> THEN NoPath
         ELSE Real(f, p, Tail(rest), fuel)

RealPath(f, p) == Real(f, <<>>, p, MaxLinkDepth)

\* Path::exists, Path::is_dir, Path::is_file: all follow symbolic links
Exists(f, p) == RealPath(f, p) # NoPath
IsDir(f, p) == Exists(f, p) /\ f[RealPath(f, p)].k = "dir"
IsFile(f, p) == Exists(f, p) /\ f[RealPath(f, p)].k = "file"

Put(f, p, node) == [q \in DOMAIN f \cup {p} |-> IF q = p THEN node ELSE f[q]]

\* fs::remove_dir_all: the directory and everything below it
RemoveDirAll(f, p) == [q \in {r \in DOMAIN f : ~IsPrefix(p, r)} |-> f[q]]

\* fs::remove_file: one directory entry
RemoveFile(f, p) == [q \in DOMAIN f \ {p} |-> f[q]]

\* fs::create_dir_all: creates every missing component; fails on a
\* component that is a file or a dangling link
RECURSIVE MkdirAllFrom(_, _, _)
MkdirAllFrom(f, p, i) ==
    IF i > Len(p) THEN [fs |-> f, ok |-> TRUE]
    ELSE LET pre == SubSeq(p, 1, i)
             r == RealPath(f, pre)
         IN  IF r # NoPath
             THEN IF f[r].k = "dir" THEN MkdirAllFrom(f, p, i + 1)
                  ELSE [fs |-> f, ok |-> FALSE]
             ELSE LET e == Append(RealPath(f, Parent(pre)), p[i]) IN
                  IF e \in DOMAIN f THEN [fs |-> f, ok |-> FALSE]
                  ELSE MkdirAllFrom(Put(f, e, Dir), p, i + 1)

CreateDirAll(f, p) == MkdirAllFrom(f, p, 1)

\* the entries of a directory (read_dir), as full paths
ReadDir(f, d) ==
    LET r == RealPath(f, d) IN
    {Append(d, q[Len(q)]) : q \in {q \in DOMAIN f : Len(q) = Len(r) + 1 /\ IsPrefix(r, q)}}

----------------------------------------------------------------------------
(* Names, digests and artifacts.  Names are opaque, so the string          *)
(* predicates of the code are tabulated over the names the model uses.     *)

TempName == "package.tmp"
TempTarName == "temp.tar"

\* Path::extension of a file name: what follows its last dot
Extension(name) ==
    CASE name = "package.tmp" -> "tmp"
      [] name = "temp.tar" -> "tar"
      [] name \in {"tool-1.2.0.tar.gz", "hello_1.0.0.tar.gz", "hello_2.0.0.tar.gz",
                   "wrap-1.0.0.tar.gz"} -> "gz"
      [] name \in {"lib-0.5.0.zip", "caps-1.0.0.zip"} -> "zip"
      [] OTHER -> None

\* str::ends_with(".gz")
EndsWithGz(name) == Extension(name) = "gz"

\* str::contains("hello")
ContainsHello(s) == s \in {"hello", "hello_1.0.0.tar.gz", "hello_2.0.0.tar.gz"}

\* str::to_lowercase
ToLowercase(s) ==
    CASE s = "HELLO" -> "hello"
      [] OTHER -> s

\* a hex digest: the digest of the bytes named h, written in lower or upper case
Digest(h, c) == [h |-> h, case |-> c]
NoDigest == Digest("none", "lower")

\* Sha256 followed by format!("{:x}"): lower-case hex
Sha256Hex(content) == Digest(content, "lower")

\* what an artifact's bytes hold: the container kind and the files packed in it
Archive(content) ==
    CASE content = "tool" -> [kind |-> "targz", entries |-> {<<"bin", "tool">>}]
      [] content = "hello1" -> [kind |-> "targz", entries |-> {<<"bin", "hello">>}]
      [] content = "hello2" -> [kind |-> "targz", entries |-> {<<"bin", "hello">>}]
      [] content = "wrap" -> [kind |-> "targz", entries |-> {<<"foo", "bin", "run">>}]
      [] content = "lib" -> [kind |-> "zip", entries |-> {<<"lib", "lib.so">>}]
      [] content = "caps" -> [kind |-> "zip", entries |-> {<<"bin", "caps">>}]
      [] OTHER -> [kind |-> "junk", entries |-> {}]

\* the bytes the provider serves for a source locator
Served(source) ==
    CASE source = "tool-1.2.0.tar.gz" -> "tool"
      [] source = "hello_1.0.0.tar.gz" -> "hello1"
      [] source = "hello_2.0.0.tar.gz" -> "hello2"
      [] source = "wrap-1.0.0.tar.gz" -> "wrap"
      [] source = "lib-0.5.0.zip" -> "lib"
      [] source = "caps-1.0.0.zip" -> "caps"
      [] OTHER -> "junk"

FileOf(content) == [k |-> "file", x |-> FALSE, c |-> content]
HelloScript == [k |-> "file", x |-> TRUE, c |-> "script"]

----------------------------------------------------------------------------
(* The registry contents the operations are run on *)

Package(n, v, src, deps) ==
    [name |-> n, version |-> v,
     sha256 |-> IF src = None THEN NoDigest ELSE Sha256Hex(Served(src)),
     source |-> src, dependencies |-> deps]

PkgLib == Package("lib", "0.5.0", "lib-0.5.0.zip", <<>>)
PkgTool == Package("tool", "1.2.0", "tool-1.2.0.tar.gz", <<>>)
PkgWrap == Package("wrap", "1.0.0", "wrap-1.0.0.tar.gz", <<PkgLib>>)
PkgGreet1 == Package("greet", "1.0.0", "hello_1.0.0.tar.gz", <<>>)
PkgGreet2 == Package("greet", "2.0.0", "hello_2.0.0.tar.gz", <<>>)
\* a package whose digest is declared in upper-case hex
PkgCaps == [Package("caps", "1.0.0", "caps-1.0.0.zip", <<>>) EXCEPT
               !.sha256 = Digest(Served("caps-1.0.0.zip"), "upper")]
\* packages without a source locator; lib occurs twice in the tree of meta
PkgKit == Package("kit", "1.0.0", None, <<PkgLib>>)
PkgMeta == Package("meta", "1.0.0", None, <<PkgLib, PkgKit>>)

Packages == {PkgLib, PkgTool, PkgWrap, PkgGreet1, PkgGreet2, PkgCaps, PkgKit, PkgMeta}

Cmd(c, p) == [command |-> c, path |-> p]

AppOf(n, v, pkgs, cmds) == [name |-> n, version |-> v, packages |-> pkgs, commands |-> cmds]

AppTool == AppOf("tool", "1.2.0", <<PkgTool>>, <<Cmd("tool", <<"bin", "tool">>)>>)
AppWrap == AppOf("wrap", "1.0.0", <<PkgWrap>>, <<Cmd("run", <<"bin", "run">>)>>)
AppGreet1 == AppOf("greet", "1.0.0", <<PkgGreet1>>,
                   <<Cmd("greet", <<"bin", "hello">>), Cmd("hi", <<"hello">>)>>)
AppGreet2 == AppOf("greet", "2.0.0", <<PkgGreet2>>,
                   <<Cmd("hi", <<"hello">>), Cmd("shout", <<"sbin", "HELLO">>)>>)

AppCaps == AppOf("caps", "1.0.0", <<PkgCaps>>, <<Cmd("caps", <<"bin", "caps">>)>>)
AppSuite == AppOf("suite", "1.0.0", <<PkgGreet1, PkgMeta>>, <<Cmd("greet", <<"bin", "hello">>)>>)
AppHello == AppOf("hello", "1.0.0", <<PkgGreet2>>, <<Cmd("hello", <<"bin", "hello">>)>>)

Apps == {AppTool, AppWrap, AppGreet1, AppGreet2, AppCaps, AppSuite, AppHello}

\* the registry documents a run can be configured with
Registries == {{AppTool, AppWrap}, {AppGreet1, AppGreet2}, {AppCaps, AppHello}, {AppSuite}}

RECURSIVE Closure(_)
\* a package and, transitively, its inline dependencies
Closure(package) ==
    {package} \cup UNION {Closure(package.dependencies[i]) : i \in 1..Len(package.dependencies)}

PackagesOf(apps) == UNION {UNION {Closure(a.packages[i]) : i \in 1..Len(a.packages)} : a \in apps}

CommandNames == {"tool", "run", "greet", "hi", "shout", "caps", "hello"}

\* what one download can do: deliver the served bytes, deliver other bytes,
\* fail before writing, or fail after writing part of the file
FetchOutcomes == {"ok", "corrupt", "fail", "partial"}

Sources == {p.source : p \in Packages} \ {None}

\* the environments of one call on the given packages: every download
\* succeeds except possibly those of one source (a call stops at its first
\* failure, so a second failing source is never reached)
Envs(packages) ==
    {[s \in Sources |-> "ok"]} \cup
    {[s \in Sources |-> IF s = b THEN o ELSE "ok"] :
        b \in {p.source : p \in packages} \ {None}, o \in FetchOutcomes \ {"ok"}}

----------------------------------------------------------------------------
(* Results of an operation: the install root, success or the error, and    *)
(* the steps taken                                                          *)

NoErr == [kind |-> "none", name |-> "", expected |-> NoDigest, actual |-> NoDigest, path |-> <<>>]
IoErr(p) == [NoErr EXCEPT !.kind = "Io", !.path = p]

Ev(e, package) == [e |-> e, n |-> package.name, v |-> package.version, h |-> NoDigest]

Start(f, l) == [fs |-> f, links |-> l, ok |-> TRUE, err |-> NoErr, log |-> <<>>]
Log(st, e, package) == [st EXCEPT !.log = Append(@, Ev(e, package))]
Fail(st, err) == [st EXCEPT !.ok = FALSE, !.err = err]
WithFs(st, f) == [st EXCEPT !.fs = f]

----------------------------------------------------------------------------
(* PackageManager::install_package_internal, step by step *)

PackageDir(package) == <<package.name, package.version>>

\* Provider::download_package(source, destination)
download_package(f, source, destination, outcome) ==
    CASE outcome = "ok" -> [fs |-> Put(f, destination, FileOf(Served(source))), ok |-> TRUE]
      [] outcome = "corrupt" -> [fs |-> Put(f, destination, FileOf("junk")), ok |-> TRUE]
      [] outcome = "partial" -> [fs |-> Put(f, destination, FileOf("part")), ok |-> FALSE]
      [] OTHER -> [fs |-> f, ok |-> FALSE]

\* unpack the files of an archive below dir, creating their parent directories
Unpack(f, dir, entries) ==
    LET files == {dir \o e : e \in entries}
        dirs == UNION {{SubSeq(q, 1, i) : i \in (Len(dir) + 1)..(Len(q) - 1)} : q \in files}
    IN  [q \in DOMAIN f \cup files \cup dirs
           |-> IF q \in files THEN FileOf("data")
               ELSE IF q \in DOMAIN f THEN f[q] ELSE Dir]

\* the directories directly below the package directory
TopDirs(f, package_dir) == {q \in ReadDir(f, package_dir) : IsDir(f, q)}

\* lines 278-299: a single top-level directory that is not bin is moved up.
\* A child named like the wrapper cannot be moved (its destination is the
\* wrapper itself); the install root is then left as it was before the move.
Normalize(f, package_dir) ==
    LET dirs == TopDirs(f, package_dir) IN
    IF Cardinality(dirs) = 1 /\ (CHOOSE d \in dirs : TRUE)[Len(package_dir) + 1] # "bin"
    THEN LET w == CHOOSE d \in dirs : TRUE
             below == {q \in DOMAIN f : IsPrefix(w, q) /\ q # w}
             up(q) == package_dir \o SubSeq(q, Len(w) + 1, Len(q))
         IN  IF \E q \in below : up(q) = w
             THEN [fs |-> f, ok |-> FALSE]
             ELSE [fs |-> [q \in ((DOMAIN f \ below) \ {w}) \cup {up(x) : x \in below}
                            |-> IF \E x \in below : up(x) = q
                                THEN f[CHOOSE x \in below : up(x) = q]
                                ELSE f[q]],
                   ok |-> TRUE]
    ELSE [fs |-> f, ok |-> TRUE]

\* lines 302-313: list the files, remove the temporary artifact, succeed
Finish(st, package) ==
    LET temp_path == Append(PackageDir(package), TempName) IN
    IF temp_path \in DOMAIN st.fs
    THEN Log(WithFs(st, RemoveFile(st.fs, temp_path)), "done", package)
    ELSE Fail(st, IoErr(temp_path))

\* lines 112-165: a source containing "hello" is not unpacked: bin/hello is
\* written directly and the call returns, skipping the rest of the pipeline
ExtractHello(st, package) ==
    LET bin_dir == Append(PackageDir(package), "bin")
        mk == CreateDirAll(st.fs, bin_dir)
    IN  IF ~mk.ok THEN Fail(WithFs(st, mk.fs), IoErr(bin_dir))
        ELSE Log(WithFs(st, Put(mk.fs, Append(bin_dir, "hello"), HelloScript)), "done", package)

\* lines 166-169: zip container
ExtractZip(st, package, content) ==
    IF Archive(content).kind # "zip" THEN Fail(st, IoErr(PackageDir(package)))
    ELSE Finish(Log(WithFs(st, Unpack(st.fs, PackageDir(package), Archive(content).entries)),
                    "extract", package), package)

\* lines 170-300: tar or gzip-compressed tar, then the layout normalization
ExtractTar(st, package, content, is_gzip) ==
    IF Archive(content).kind # (IF is_gzip THEN "targz" ELSE "tar")
    THEN Fail(IF is_gzip
              THEN WithFs(st, Put(st.fs, Append(PackageDir(package), TempTarName), FileOf("part")))
              ELSE st,
              IoErr(PackageDir(package)))
    ELSE LET un == Unpack(st.fs, PackageDir(package), Archive(content).entries)
             nz == Normalize(un, PackageDir(package))
         IN  IF ~nz.ok THEN Fail(Log(WithFs(st, nz.fs), "extract", package), IoErr(PackageDir(package)))
             ELSE Finish(Log(WithFs(st, nz.fs), "extract", package), package)

\* lines 108-310: choose the extraction from the source and from the
\* extension of the temporary artifact path
Extract(st, package, content) ==
    LET temp_name == TempName IN
    IF ContainsHello(package.source) THEN ExtractHello(st, package)
    ELSE IF Extension(temp_name) = "zip" THEN ExtractZip(st, package, content)
    ELSE IF Extension(temp_name) \in {"tar", "gz"}
         THEN ExtractTar(st, package, content, EndsWithGz(temp_name))
    ELSE Finish(st, package)

\* ChecksumFailure with the removal of the package directory left out
ChecksumFailure_KeepsDir(st, package, hash) ==
    [st EXCEPT !.ok = FALSE,
               !.err = [kind |-> "ChecksumMismatch", name |-> package.name,
                        expected |-> package.sha256, actual |-> hash, path |-> <<>>]]

\* lines 95-106: the digests differ: remove the package directory and fail
ChecksumFailure(st, package, hash) ==
    Fail(Log(WithFs(st, RemoveDirAll(st.fs, PackageDir(package))), "rmdir", package),
         [kind |-> "ChecksumMismatch", name |-> package.name,
          expected |-> package.sha256, actual |-> hash, path |-> <<>>])

\* lines 88-106: hash the downloaded bytes and compare with the declared digest
Verify(st, package) ==
    LET content == st.fs[Append(PackageDir(package), TempName)].c
        hash == Sha256Hex(content)
        st1 == [st EXCEPT !.log = Append(@, [Ev("verify", package) EXCEPT !.h = hash])]
    IN  IF hash # package.sha256 THEN ChecksumFailure(st1, package, hash)
        ELSE Extract(Log(st1, "verified", package), package, content)

\* lines 81-86: download to <package_dir>/package.tmp
Fetch(st, package, env) ==
    LET temp_path == Append(PackageDir(package), TempName)
        dl == download_package(st.fs, package.source, temp_path, env[package.source])
        st1 == Log(WithFs(st, dl.fs), "fetch", package)
    IN  IF ~dl.ok THEN Fail(st1, [IoErr(temp_path) EXCEPT !.kind = "Fetch"])
        ELSE Verify(st1, package)

\* InstallSelf with the existence check of the package directory left out
InstallSelf_Refetch(st, package, env) ==
    LET package_dir == PackageDir(package)
        st1 == Log(st, "check", package)
        mk == CreateDirAll(st.fs, package_dir)
        st2 == Log(WithFs(st1, mk.fs), "mkdir", package)
    IN  IF ~mk.ok THEN Fail(WithFs(st1, mk.fs), IoErr(package_dir))
        ELSE IF package.source = None THEN Log(st2, "done", package)
        ELSE Fetch(st2, package, env)

\* InstallSelf with the creation of the directory of a source-less package
\* left out
InstallSelf_NoDir(st, package, env) ==
    LET package_dir == PackageDir(package)
        st1 == Log(st, "check", package)
    IN  IF Exists(st.fs, package_dir) THEN Log(st1, "already", package)
        ELSE LET mk == CreateDirAll(st.fs, package_dir)
                 st2 == Log(WithFs(st1, mk.fs), "mkdir", package)
             IN  IF ~mk.ok THEN Fail(WithFs(st1, mk.fs), IoErr(package_dir))
                 ELSE IF package.source = None THEN Log(Log(st1, "mkdir", package), "done", package)
                 ELSE Fetch(st2, package, env)

\* lines 65-313: the package itself, once its dependencies are installed
InstallSelf(st, package, env) ==
    LET package_dir == PackageDir(package)
        st1 == Log(st, "check", package)
    IN  IF Exists(st.fs, package_dir) THEN Log(st1, "already", package)
        ELSE LET mk == CreateDirAll(st.fs, package_dir)
                 st2 == Log(WithFs(st1, mk.fs), "mkdir", package)
             IN  IF ~mk.ok THEN Fail(WithFs(st1, mk.fs), IoErr(package_dir))
                 ELSE IF package.source = None THEN Log(st2, "done", package)
                 ELSE Fetch(st2, package, env)

RECURSIVE install_package_internal(_, _, _)

RECURSIVE InstallDeps(_, _, _, _)

\* InstallDeps with the loop over the dependencies left out
InstallDeps_Skipped(st, deps, i, env) == st

\* lines 60-63: the dependencies in list order, stopping at the first failure
InstallDeps(st, deps, i, env) ==
    IF i > Len(deps) THEN st
    ELSE LET d == install_package_internal(st, deps[i], env) IN
         IF ~d.ok THEN d ELSE InstallDeps(d, deps, i + 1, env)

install_package_internal(st, package, env) ==
    LET d == InstallDeps(Log(st, "enter", package), package.dependencies, 1, env) IN
    IF ~d.ok THEN d ELSE InstallSelf(d, package, env)

\* lines 317-324
install_package(st, package, env) == install_package_internal(st, package, env)

\* uninstall_package with the version ignored: the whole directory of the
\* package is removed
uninstall_package_AllVersions(st, package_name, version) ==
    IF Exists(st.fs, <<package_name>>)
    THEN [WithFs(st, RemoveDirAll(st.fs, <<package_name>>)) EXCEPT
              !.log = Append(@, [e |-> "removed", n |-> package_name, v |-> version, h |-> NoDigest])]
    ELSE [st EXCEPT !.log = Append(@, [e |-> "absent", n |-> package_name, v |-> version, h |-> NoDigest])]

\* lines 326-355: uninstall_package(name, Some(version)) and (name, None)
uninstall_package(st, package_name, version) ==
    LET target == IF version = None THEN <<package_name>> ELSE <<package_name, version>> IN
    IF Exists(st.fs, target)
    THEN [WithFs(st, RemoveDirAll(st.fs, target)) EXCEPT
              !.log = Append(@, [e |-> "removed", n |-> package_name, v |-> version, h |-> NoDigest])]
    ELSE [st EXCEPT !.log = Append(@, [e |-> "absent", n |-> package_name, v |-> version, h |-> NoDigest])]

\* update_package with the other versions of the package removed before the
\* new one is installed
update_package_Replacing(st, package, env) ==
    IF Exists(st.fs, PackageDir(package)) THEN Log(st, "uptodate", package)
    ELSE install_package(Log(WithFs(st, RemoveDirAll(st.fs, <<package.name>>)), "update", package),
                         package, env)

\* lines 357-399
update_package(st, package, env) ==
    IF Exists(st.fs, PackageDir(package)) THEN Log(st, "uptodate", package)
    ELSE install_package(Log(st, "update", package), package, env)

\* lines 401-409
is_package_installed(f, package_name, version) ==
    IF version = None THEN Exists(f, <<package_name>>) ELSE Exists(f, <<package_name, version>>)

----------------------------------------------------------------------------
(* Command linking: AppManager::install_app, find_binary_in_dir and        *)
(* PackageManager::create_command_symlink                                   *)

Absent == <<"-">>

Filename(path) == path[Len(path)]

\* std::os::unix::fs::symlink(original, link) inside the install root:
\* fails when the link path already has an entry, dangling or not
Symlink(f, original, link_path) ==
    LET parent == RealPath(f, Parent(link_path)) IN
    IF parent = NoPath \/ Append(parent, Filename(link_path)) \in DOMAIN f
    THEN [fs |-> f, ok |-> FALSE]
    ELSE [fs |-> Put(f, Append(parent, Filename(link_path)), Link(original)), ok |-> TRUE]

\* set_mode(0o755) on the file the path resolves to
Chmod755(f, p) ==
    LET r == RealPath(f, p) IN
    IF r # NoPath /\ f[r].k = "file" THEN [f EXCEPT ![r].x = TRUE] ELSE f

\* Path::exists on a link of the executable directory: follows the link
LinkExists(st, name) == st.links[name] # Absent /\ Exists(st.fs, st.links[name])

LinkEv(e, cmd) == [e |-> e, n |-> cmd.command, v |-> "", h |-> NoDigest]

\* "if link.exists() { remove_file(link) }" then symlink(target, link)
Relink(st, cmd, target) ==
    LET l1 == IF LinkExists(st, cmd.command)
              THEN [st.links EXCEPT ![cmd.command] = Absent] ELSE st.links
    IN  IF l1[cmd.command] # Absent
        THEN Fail([st EXCEPT !.log = Append(@, LinkEv("linkfail", cmd))],
                  [IoErr(<<cmd.command>>) EXCEPT !.kind = "AlreadyExists"])
        ELSE [st EXCEPT !.links = [l1 EXCEPT ![cmd.command] = target],
                        !.log = Append(@, LinkEv("link", cmd))]

RECURSIVE find_binary_in_dir(_, _, _)

\* find_binary_in_dir with the comparison of the file name left out
find_binary_in_dir_AnyName(f, dir, filename) ==
    {q \in DOMAIN f : IsPrefix(dir, q) /\ q # dir /\ ~IsDir(f, q)}

\* app/manager.rs lines 7-69: depth-first search in directory order, which
\* read_dir leaves unspecified: the set of paths the search can return
find_binary_in_dir(f, dir, filename) ==
    IF ~IsDir(f, dir) THEN {}
    ELSE LET entries == ReadDir(f, dir)
             here == {e \in entries : ~IsDir(f, e)
                                      /\ ToLowercase(Filename(e)) = ToLowercase(filename)}
             below == UNION {find_binary_in_dir(f, e, filename) : e \in {x \in entries : IsDir(f, x)}}
             bin_path == dir \o <<"bin", filename>>
         IN  IF here \cup below # {} THEN here \cup below
             ELSE IF Exists(f, bin_path) THEN {bin_path} ELSE {}

\* package/manager.rs lines 525-548: bin/<name>, then <name>, then a walk
find_binary_in_package_dir(f, dir, command_name) ==
    IF Exists(f, dir \o <<"bin", command_name>>) THEN {dir \o <<"bin", command_name>>}
    ELSE IF Exists(f, Append(dir, command_name)) THEN {Append(dir, command_name)}
    ELSE {q \in DOMAIN f : IsPrefix(dir, q) /\ q # dir /\ IsFile(f, q) /\ Filename(q) = command_name}

\* package/manager.rs lines 411-522: the outcomes the call can have
create_command_symlink(st, cmd, package_dir) ==
    LET target == package_dir \o cmd.path IN
    IF ~Exists(st.fs, target)
    THEN IF cmd.command = "hello"
         THEN LET mk == CreateDirAll(st.fs, Append(package_dir, "bin"))
                  hello_path == package_dir \o <<"bin", "hello">>
              IN  IF ~mk.ok \/ IsDir(mk.fs, hello_path)
                  THEN {Fail(WithFs(st, mk.fs), IoErr(hello_path))}
                  ELSE {Relink(WithFs(st, Put(mk.fs, RealPath(mk.fs, Parent(hello_path)) \o <<"hello">>,
                                              HelloScript)), cmd, hello_path)}
         ELSE LET found == find_binary_in_package_dir(st.fs, package_dir, cmd.command) IN
              IF found # {} THEN {Relink(st, cmd, found_path) : found_path \in found}
              ELSE {Fail(st, [IoErr(target) EXCEPT !.kind = "TargetNotFound"])}
    ELSE LET l1 == Relink(st, cmd, target) IN
         \* the old link is removed, the target made executable, the link created
         {WithFs(l1, Chmod755(st.fs, target))}

\* app/manager.rs lines 160-216: make the declared path of the command exist
EnsureTarget(st, cmd, package_dir) ==
    LET target_path == package_dir \o cmd.path
        alternate_path == Append(package_dir, Filename(cmd.path))
        LinkTo(s, found_path) ==
            LET mk == CreateDirAll(s.fs, Parent(target_path))
                sl == Symlink(mk.fs, found_path, target_path)
            IN  IF ~mk.ok THEN Fail(WithFs(s, mk.fs), IoErr(Parent(target_path)))
                ELSE IF ~sl.ok THEN Fail(WithFs(s, mk.fs), IoErr(target_path))
                ELSE [WithFs(s, sl.fs) EXCEPT !.log = Append(@, LinkEv("found", cmd))]
    IN  IF Exists(st.fs, target_path) THEN {st}
        ELSE IF Exists(st.fs, alternate_path) THEN {LinkTo(st, alternate_path)}
        ELSE LET st1 == IF Len(cmd.path) > 1
                        THEN WithFs(st, CreateDirAll(st.fs, Parent(target_path)).fs)
                        ELSE st
                 found == find_binary_in_dir(st1.fs, package_dir, Filename(cmd.path))
             IN  IF found # {} THEN {LinkTo(st1, found_path) : found_path \in found}
                 ELSE {Fail([st1 EXCEPT !.log = Append(@, LinkEv("notfound", cmd))],
                            [IoErr(target_path) EXCEPT !.kind = "BinaryNotFound"])}

\* one iteration of the loop over app.commands (lines 149-223)
LinkCommand(st, cmd, package_dir) ==
    UNION {IF s.ok THEN create_command_symlink(s, cmd, package_dir) ELSE {s}
           : s \in EnsureTarget(st, cmd, package_dir)}

RECURSIVE LinkCommands(_, _, _, _)
LinkCommands(sts, commands, i, package_dir) ==
    IF i > Len(commands) THEN sts
    ELSE LinkCommands(UNION {IF s.ok THEN LinkCommand(s, commands[i], package_dir) ELSE {s} : s \in sts},
                      commands, i + 1, package_dir)

\* lines 140-144: the packages of the app in list order
RECURSIVE InstallPackages(_, _, _, _)
InstallPackages(st, packages, i, env) ==
    IF i > Len(packages) THEN st
    ELSE LET d == install_package(st, packages[i], env) IN
         IF ~d.ok THEN d ELSE InstallPackages(d, packages, i + 1, env)

\* lines 86-137: the app named "hello" is not installed through the pipeline
InstallHelloApp(st, app) ==
    LET bin_dir == Append(PackageDir(app.packages[1]), "bin")
        hello_path == Append(bin_dir, "hello")
        mk == CreateDirAll(st.fs, bin_dir)
    IN  IF ~mk.ok \/ IsDir(mk.fs, hello_path) THEN Fail(WithFs(st, mk.fs), IoErr(hello_path))
        ELSE Relink(WithFs(st, Put(mk.fs, RealPath(mk.fs, bin_dir) \o <<"hello">>, HelloScript)),
                    Cmd("hello", <<"bin", "hello">>), hello_path)

\* app/manager.rs lines 80-246: the outcomes the call can have
install_app(st, app, env) ==
    IF app.name = "hello" THEN {InstallHelloApp(st, app)}
    ELSE LET d == InstallPackages(st, app.packages, 1, env) IN
         IF ~d.ok THEN {d}
         ELSE LinkCommands({d}, app.commands, 1, PackageDir(app.packages[1]))

\* main.rs lines 69-90: update every package of the app; nothing is linked
RECURSIVE UpdatePackages(_, _, _, _)
UpdatePackages(st, packages, i, env) ==
    IF i > Len(packages) THEN st
    ELSE LET d == update_package(st, packages[i], env) IN
         IF ~d.ok THEN d ELSE UpdatePackages(d, packages, i + 1, env)

----------------------------------------------------------------------------
(* Configuration: providers and subscriptions, and the registry documents  *)
(* found at the locations they name.  Locations are sequences of strings.  *)

\* Provider { name, source }: a GitHub repository or a local registry file
Provider(n, kind, at) == [name |-> n, source |-> [kind |-> kind, at |-> at]]
NoProvider == Provider("", "none", <<>>)

\* ArtifactorySubscription { name, source: Local(path) | Remote(url), auto_update }
Subscription(n, kind, at, auto) ==
    [name |-> n, source |-> [kind |-> kind, at |-> at], auto_update |-> auto]

\* the text of a registry document: parseable, with the apps it lists in
\* document order, or not parseable
Doc(apps) == [valid |-> TRUE, apps |-> apps]
Garbage == [valid |-> FALSE, apps |-> <<>>]

PathA == <<"reg", "a.toml">>
PathC == <<"reg", "c.toml">>
PathBad == <<"reg", "bad.toml">>
PathGone == <<"reg", "gone.toml">>

\* the local registry files that exist (reg/gone.toml does not)
RegistryFiles ==
    (PathA :> Doc(<<AppTool, AppGreet1>>)) @@
    (PathC :> Doc(<<AppGreet2, AppGreet1, AppWrap>>)) @@
    (PathBad :> Garbage)

GhB == <<"owner", "b", "main", "reg.toml">>
GhDown == <<"owner", "down", "main", "reg.toml">>

\* std::fs::read_to_string(path)
ReadToString(path) ==
    IF path \in DOMAIN RegistryFiles
    THEN [ok |-> TRUE, content |-> RegistryFiles[path]]
    ELSE [ok |-> FALSE, content |-> Garbage]

\* GithubProvider::fetch_artifactory: GET of the raw-content URL built from
\* owner, repo, ref and path; the request to owner/down fails
GithubFetch(github) ==
    IF github = GhB THEN [ok |-> TRUE, content |-> Doc(<<AppGreet2, AppTool>>)]
    ELSE [ok |-> FALSE, content |-> Garbage]

\* Provider::fetch_artifactory
fetch_artifactory(provider) ==
    IF provider.source.kind = "Github" THEN GithubFetch(provider.source.at)
    ELSE ReadToString(provider.source.at)

\* toml::from_str::<Artifactory>(content), the apps of the document kept
TomlFromStr(content) ==
    IF content.valid THEN [ok |-> TRUE, apps |-> content.apps]
    ELSE [ok |-> FALSE, apps |-> <<>>]

\* ProviderManager::load_artifactory_from_subscription
load_artifactory_from_subscription(subscription) ==
    IF subscription.source.kind = "Local"
    THEN LET read == ReadToString(subscription.source.at) IN
         IF read.ok THEN TomlFromStr(read.content) ELSE [ok |-> FALSE, apps |-> <<>>]
    ELSE [ok |-> FALSE, apps |-> <<>>]

ProvA == Provider("pa", "Artifactory", PathA)
ProvB == Provider("pb", "Github", GhB)
ProvBad == Provider("px", "Artifactory", PathBad)
ProvDown == Provider("px", "Github", GhDown)
ProviderUniverse == {ProvA, ProvB, ProvBad, ProvDown}

SubA == Subscription("sa", "Local", PathA, FALSE)
SubBad == Subscription("sa", "Local", PathBad, TRUE)
SubC == Subscription("sc", "Local", PathC, TRUE)
SubRemote == Subscription("sr", "Remote", <<"https://r.example/reg.toml">>, FALSE)
SubGone == Subscription("sr", "Local", PathGone, FALSE)
SubscriptionUniverse == {SubA, SubBad, SubC, SubRemote, SubGone}
SubscriptionNames == {s.name : s \in SubscriptionUniverse}

UniqueNames(subs) ==
    \A i, j \in 1..Len(subs) : subs[i].name = subs[j].name => i = j

\* the provider maps new_from_config can build: one provider per name
ProviderMaps ==
    {P \in SUBSET ProviderUniverse : \A p, q \in P : p.name = q.name => p = q}

\* the subscription lists the subscription commands can leave in the
\* configuration: no name twice
SubscriptionLists ==
    UNION {{subs \in [1..n -> SubscriptionUniverse] : UniqueNames(subs)} :
               n \in 0..Cardinality(SubscriptionNames)}

\* HashMap::values(): the providers in an order the map does not specify
Orders(P) ==
    {o \in [1..Cardinality(P) -> P] : \A i, j \in 1..Cardinality(P) : o[i] = o[j] => i = j}

----------------------------------------------------------------------------
(* ProviderManager::find_app *)

NoVersion == <<>>

\* semver::Version::parse over the version texts the model uses: major,
\* minor and patch of a valid version, an error for any other text
VersionParse(text) ==
    CASE text = "0.5.0" -> [ok |-> TRUE, v |-> <<0, 5, 0>>]
      [] text = "1.0.0" -> [ok |-> TRUE, v |-> <<1, 0, 0>>]
      [] text = "1.2.0" -> [ok |-> TRUE, v |-> <<1, 2, 0>>]
      [] text = "2.0.0" -> [ok |-> TRUE, v |-> <<2, 0, 0>>]
      [] text = "9.9.9" -> [ok |-> TRUE, v |-> <<9, 9, 9>>]
      [] OTHER -> [ok |-> FALSE, v |-> NoVersion]

\* App::version as the document parser holds it
VersionOf(app) == VersionParse(app.version).v

\* the queries: an app_spec is the sequence of its parts between '@'
Queries ==
    {<<"tool">>, <<"greet">>, <<"nosuch">>,
     <<"tool", "1.2.0">>, <<"greet", "2.0.0">>, <<"greet", "9.9.9">>,
     <<"greet", "latest">>, <<"greet", "1.0.0", "x">>}

\* the lines the operator can type ("" is end of input)
StdinLines == {"1", " 2 ", "3", "0", "9", "x", ""}
Unread == "<unread>"

\* choice.trim().parse::<usize>()
ParseChoice(line) ==
    CASE line = "1" -> [ok |-> TRUE, n |-> 1]
      [] line = " 2 " -> [ok |-> TRUE, n |-> 2]
      [] line = "3" -> [ok |-> TRUE, n |-> 3]
      [] line = "0" -> [ok |-> TRUE, n |-> 0]
      [] line = "9" -> [ok |-> TRUE, n |-> 9]
      [] OTHER -> [ok |-> FALSE, n |-> 0]

NoApp == AppOf("", "", <<>>, <<>>)

\* the outcome of a resolution or of a subscription command
NoFault == [kind |-> "none", query |-> <<>>]
Resolved(app, provider, log) ==
    [ok |-> TRUE, err |-> NoFault, app |-> app, provider |-> provider, log |-> log]
Failed(kind, query, log) ==
    [ok |-> FALSE, err |-> [kind |-> kind, query |-> query],
     app |-> NoApp, provider |-> NoProvider, log |-> log]

\* the error of lines 80-82 with the app name in place of the query
NotFound_NameOnly(app_spec) == Failed("NotFound", <<app_spec[1]>>, <<>>)

\* lines 80-82: "App {app_spec} not found in any provider or artifactory"
NotFound(app_spec) == Failed("NotFound", app_spec, <<>>)

\* the filter of lines 163-175 with the version test left out
Matching_AnyVersion(apps, app_name, version) ==
    SelectSeq(apps, LAMBDA app : app.name = app_name)

\* lines 163-175 and 198-210: the apps of one document that match, in
\* document order
Matching(apps, app_name, version) ==
    SelectSeq(apps, LAMBDA app :
        app.name = app_name /\ (version # NoVersion => VersionOf(app) = version))

\* found_apps zipped with the source each app was found in
Found(apps, from) == [k \in 1..Len(apps) |-> [app |-> apps[k], from |-> from]]

RECURSIVE find_app_in_providers(_, _, _, _)

\* find_app_in_providers with the search ended at the first provider that
\* cannot be fetched or parsed
find_app_in_providers_StopAtFailure(order, i, app_name, version) ==
    IF i > Len(order) THEN <<>>
    ELSE LET fetched == fetch_artifactory(order[i])
             parsed == TomlFromStr(fetched.content)
         IN  IF ~fetched.ok \/ ~parsed.ok THEN <<>>
             ELSE Found(Matching(parsed.apps, app_name, version), order[i])
                  \o find_app_in_providers(order, i + 1, app_name, version)

\* lines 147-179: found_apps zipped with providers_used, the providers taken
\* in the order the map yields them
find_app_in_providers(order, i, app_name, version) ==
    IF i > Len(order) THEN <<>>
    ELSE LET fetched == fetch_artifactory(order[i])
             parsed == TomlFromStr(fetched.content)
         IN  (IF ~fetched.ok \/ ~parsed.ok THEN <<>>
              ELSE Found(Matching(parsed.apps, app_name, version), order[i]))
             \o find_app_in_providers(order, i + 1, app_name, version)

\* lines 182-214: found_apps zipped with artifactories_used (subscription
\* names), the subscriptions taken in list order
RECURSIVE find_app_in_artifactories(_, _, _, _)
find_app_in_artifactories(subscriptions, i, app_name, version) ==
    IF i > Len(subscriptions) THEN <<>>
    ELSE LET loaded == load_artifactory_from_subscription(subscriptions[i]) IN
         (IF ~loaded.ok THEN <<>>
          ELSE Found(Matching(loaded.apps, app_name, version), subscriptions[i].name))
         \o find_app_in_artifactories(subscriptions, i + 1, app_name, version)

\* format!("artifactory:{}", artifactory_name)
DummyName(artifactory_name) ==
    CASE artifactory_name = "sa" -> "artifactory:sa"
      [] artifactory_name = "sc" -> "artifactory:sc"
      [] artifactory_name = "sr" -> "artifactory:sr"

\* Provider::create_dummy_for_artifactory: the path is PathBuf::new()
create_dummy_for_artifactory(artifactory_name) ==
    Provider(DummyName(artifactory_name), "Artifactory", <<>>)

\* the events of a resolution: a candidate printed, the line read
Candidate(i, app, source) ==
    [e |-> "candidate", i |-> i, name |-> app.name, version |-> app.version, source |-> source]
ReadLine(line) ==
    [e |-> "read", i |-> 0, name |-> line, version |-> "", source |-> <<>>]

\* lines 107-116 and 133-142: the app at idx with its provider, or with a
\* dummy provider when it comes from a subscription
Selected(idx, from_providers, from_artifactories, log) ==
    IF idx <= Len(from_providers)
    THEN Resolved(from_providers[idx].app, from_providers[idx].from, log)
    ELSE LET a == from_artifactories[idx - Len(from_providers)] IN
         Resolved(a.app, create_dummy_for_artifactory(a.from), log)

\* lines 64-78: all_apps and all_sources, the apps of the providers first
AllApps(from_providers, from_artifactories) ==
    [k \in 1..Len(from_providers) |-> from_providers[k].app]
    \o [k \in 1..Len(from_artifactories) |-> from_artifactories[k].app]
AllSources(from_providers, from_artifactories) ==
    [k \in 1..Len(from_providers) |-> <<"Provider", from_providers[k].from.name>>]
    \o [k \in 1..Len(from_artifactories) |-> <<"Artifactory", from_artifactories[k].from>>]

\* lines 86-94: the candidates printed, then the line read
Listing(all_apps, all_sources, line) ==
    Append([k \in 1..Len(all_apps) |-> Candidate(k, all_apps[k], all_sources[k])],
           ReadLine(line))

\* lines 96-116: the choice of the operator
Choose(choice, from_providers, from_artifactories, log) ==
    IF ~choice.ok THEN Failed("InvalidChoice", <<>>, log)
    ELSE IF choice.n < 1 \/ choice.n > Len(from_providers) + Len(from_artifactories)
         THEN Failed("InvalidChoice", <<>>, log)
    ELSE Selected(choice.n, from_providers, from_artifactories, log)

\* lines 119-131: the first app of the requested version, or the first app
FirstMatch(all_apps, version) ==
    LET exact == {k \in 1..Len(all_apps) : VersionOf(all_apps[k]) = version} IN
    IF version # NoVersion /\ exact # {}
    THEN CHOOSE k \in exact : \A m \in exact : k <= m
    ELSE 1

\* lines 63-143: the apps found in the providers and in the subscriptions
\* combined
Combine(app_spec, version, from_providers, from_artifactories, line) ==
    IF Len(from_providers) + Len(from_artifactories) = 0 THEN NotFound(app_spec)
    ELSE IF Len(from_providers) + Len(from_artifactories) > 1 /\ version = NoVersion
         THEN Choose(ParseChoice(line), from_providers, from_artifactories,
                     Listing(AllApps(from_providers, from_artifactories),
                             AllSources(from_providers, from_artifactories), line))
    ELSE Selected(FirstMatch(AllApps(from_providers, from_artifactories), version),
                  from_providers, from_artifactories, <<>>)

\* lines 47-144; order is the order in which the provider map is iterated
\* and line the line the operator types if asked
find_app(order, subscriptions, app_spec, line) ==
    LET parsed == IF Len(app_spec) > 1 THEN VersionParse(app_spec[2])
                  ELSE [ok |-> TRUE, v |-> NoVersion]
    IN  IF ~parsed.ok THEN Failed("Semver", <<>>, <<>>)
        ELSE Combine(app_spec, parsed.v,
                     find_app_in_providers(order, 1, app_spec[1], parsed.v),
                     find_app_in_artifactories(subscriptions, 1, app_spec[1], parsed.v),
                     line)

\* provider/mod.rs lines 49-83: the places where download_package of a local
\* provider looks for a relative artifact locator, in order
possible_paths(artifactory_path, package_path) ==
    (IF artifactory_path # <<>>
     THEN <<Append(Parent(artifactory_path), package_path),
            Parent(artifactory_path) \o <<"packages", package_path>>,
            Append(Parent(artifactory_path), package_path),
            Parent(artifactory_path) \o <<"packages", package_path>>>>
     ELSE <<>>)
    \o <<<<".", package_path>>>>
    \o (IF ContainsHello(package_path)
        THEN <<<<"/home/elagouch/diem_test/artifactory/packages", "hello_1.0.0.tar.gz">>>>
        ELSE <<>>)

----------------------------------------------------------------------------
(* ArtifactoryManager: the subscription list *)

\* lines 17-20
list_subscribed(subscriptions) == subscriptions

\* add_subscription with the test for an equal name left out
add_subscription_Unchecked(subscriptions, sub) ==
    [ok |-> TRUE, kind |-> "none", subs |-> Append(subscriptions, sub)]

\* lines 22-34
add_subscription(subscriptions, sub) ==
    IF \E i \in 1..Len(subscriptions) : subscriptions[i].name = sub.name
    THEN [ok |-> FALSE, kind |-> "AlreadyExists", subs |-> subscriptions]
    ELSE [ok |-> TRUE, kind |-> "none", subs |-> Append(subscriptions, sub)]

\* remove_subscription with everything from the named subscription on removed
remove_subscription_Truncating(subscriptions, name) ==
    LET at == {i \in 1..Len(subscriptions) : subscriptions[i].name = name} IN
    IF at = {} THEN [ok |-> FALSE, kind |-> "NotFound", subs |-> subscriptions]
    ELSE [ok |-> TRUE, kind |-> "none",
          subs |-> SubSeq(subscriptions, 1, (CHOOSE i \in at : \A j \in at : i <= j) - 1)]

\* lines 36-49
remove_subscription(subscriptions, name) ==
    LET retained == SelectSeq(subscriptions, LAMBDA s : s.name # name) IN
    IF Len(subscriptions) = Len(retained)
    THEN [ok |-> FALSE, kind |-> "NotFound", subs |-> retained]
    ELSE [ok |-> TRUE, kind |-> "none", subs |-> retained]

----------------------------------------------------------------------------
(* ProviderManager: the providers by name (a HashMap keyed by the name)   *)

(* Config::providers is held as the set of the values of the map:         *)
(* new_from_config and save_to_config convert between the list and the    *)
(* map, and the order of the list is the unspecified order of             *)
(* HashMap::values (see Orders).                                          *)

\* HashMap::get: the provider stored under a name
Stored(map, name) ==
    IF \E p \in map : p.name = name THEN CHOOSE p \in map : p.name = name ELSE NoProvider

\* add_provider with the insert keeping the provider already stored
add_provider_Keeping(map, provider) ==
    [ok |-> TRUE, kind |-> "none", old |-> Stored(map, provider.name),
     providers |-> map \cup {provider}]

\* provider/manager.rs lines 33-36: HashMap::insert replaces the value
\* stored under the name and returns it; the call always succeeds
add_provider(map, provider) ==
    [ok |-> TRUE, kind |-> "none", old |-> Stored(map, provider.name),
     providers |-> {p \in map : p.name # provider.name} \cup {provider}]

\* provider/manager.rs lines 38-41: HashMap::remove returns the value
\* removed, if any; the call always succeeds
remove_provider(map, name) ==
    [ok |-> TRUE, kind |-> "none", old |-> Stored(map, name),
     providers |-> {p \in map : p.name # name}]

----------------------------------------------------------------------------
(* Config::sync_goinfre_from_sgoinfre and copy_dir_contents, on trees of   *)
(* the same filesystem model                                               *)

Sgoinfre == <<"sgoinfre">>
Goinfre == <<"goinfre">>

Root == (<<>> :> Dir)

\* the trees a shared or a local directory can hold before a call: nothing,
\* a file in its place, or a directory with an optional file, an optional
\* subdirectory and an optional file in the subdirectory
File1Opts(top) ==
    {Root} \cup {Root @@ (<<top, "file1.txt">> :> n) : n \in {FileOf("content1"), FileOf("old"), Dir}}
File2Opts(top) ==
    {Root} \cup {Root @@ (<<top, "subdir", "file2.txt">> :> n) : n \in {FileOf("content2"), FileOf("old")}}
SubdirOpts(top) ==
    {Root, Root @@ (<<top, "subdir">> :> FileOf("old"))}
        \cup {(<<top, "subdir">> :> Dir) @@ g : g \in File2Opts(top)}
TreesUnder(top) ==
    {Root, Root @@ (<<top>> :> FileOf("old"))}
        \cup {(<<top>> :> Dir) @@ a @@ b : a \in File1Opts(top), b \in SubdirOpts(top)}
Trees == {a @@ b : a \in TreesUnder("sgoinfre"), b \in TreesUnder("goinfre")}

\* the directories a call can be given
CopyPaths == {Sgoinfre, Goinfre, <<"sgoinfre", "subdir">>, <<"goinfre", "subdir">>}

\* Option<PathBuf>::None
Unset == <<"(unset)">>

\* Config { sgoinfre_dir, goinfre_dir }: unset, or a directory
SyncConfigs ==
    {[sgoinfre_dir |-> s, goinfre_dir |-> g] : s \in {Unset, Sgoinfre, Goinfre}, g \in {Unset, Goinfre}}

CopyOk(f) == [fs |-> f, ok |-> TRUE, kind |-> "none"]
CopyErr(f, kind) == [fs |-> f, ok |-> FALSE, kind |-> kind]

\* the bytes of a file opened for reading while it is truncated for writing
Truncated == ""

\* std::fs::copy(from, to): the content of from replaces that of to; when
\* both name the same file the file is truncated before it is read, or
\* left as it is, depending on the platform
FsCopy(f, from, to) ==
    IF ~IsFile(f, from) THEN {CopyErr(f, "NotFound")}
    ELSE IF IsDir(f, to) THEN {CopyErr(f, "IsADirectory")}
    ELSE IF ~IsDir(f, Parent(to)) THEN {CopyErr(f, "NotFound")}
    ELSE IF RealPath(f, to) = RealPath(f, from)
         THEN {CopyOk([f EXCEPT ![RealPath(f, from)].c = Truncated]), CopyOk(f)}
    ELSE {CopyOk(Put(f, Append(RealPath(f, Parent(to)), Filename(to)),
                     FileOf(f[RealPath(f, from)].c)))}

\* create_dir_all(dst) of line 196; a path longer than the system allows
\* cannot be created
CreateDst(f, dst) ==
    IF Exists(f, dst) THEN [fs |-> f, ok |-> TRUE]
    ELSE IF Len(dst) > MaxPathLen THEN [fs |-> f, ok |-> FALSE]
    ELSE CreateDirAll(f, dst)

RECURSIVE copy_dir_contents(_, _, _)

RECURSIVE CopyEntries(_, _, _, _)

\* lines 199-209: the entries of src in the order read_dir yields them,
\* which is unspecified, stopping at the first error
CopyEntries(r, todo, src, dst) ==
    IF ~r.ok \/ todo = {} THEN {r}
    ELSE UNION {UNION {CopyEntries(r2, todo \ {e}, src, dst) :
                          r2 \in IF IsDir(r.fs, Append(src, e))
                                 THEN copy_dir_contents(r.fs, Append(src, e), Append(dst, e))
                                 ELSE FsCopy(r.fs, Append(src, e), Append(dst, e))}
                   : e \in todo}

\* config/mod.rs lines 187-212: the outcomes the call can have
copy_dir_contents(f, src, dst) ==
    IF ~IsDir(f, src) THEN {CopyErr(f, "InvalidInput")}
    ELSE LET mk == CreateDst(f, dst) IN
         IF ~mk.ok THEN {CopyErr(mk.fs, "Io")}
         ELSE CopyEntries(CopyOk(mk.fs), {Filename(q) : q \in ReadDir(mk.fs, src)}, src, dst)

\* config/mod.rs lines 141-164; ensure_binaries_symlinked only creates the
\* executable directory, which is outside these trees
sync_goinfre_from_sgoinfre(f, config) ==
    IF config.sgoinfre_dir = Unset \/ config.goinfre_dir = Unset THEN {CopyOk(f)}
    ELSE LET mk == CreateDirAll(f, config.goinfre_dir) IN
         IF ~mk.ok THEN {CopyErr(mk.fs, "Io")}
         ELSE copy_dir_contents(mk.fs, config.sgoinfre_dir, config.goinfre_dir)

----------------------------------------------------------------------------
(* Registry documents as values and as TOML: the Serialize and Deserialize *)
(* implementations the structs derive, over TOML tables (key -> value)     *)

\* semver::Version as Display writes it
VersionDisplay(v) ==
    CASE v = <<0, 5, 0>> -> "0.5.0"
      [] v = <<1, 0, 0>> -> "1.0.0"
      [] v = <<1, 2, 0>> -> "1.2.0"
      [] v = <<2, 0, 0>> -> "2.0.0"
      [] v = <<9, 9, 9>> -> "9.9.9"
      [] OTHER -> "?"

RECURSIVE PackageValue(_)
\* a Package with every field of the struct
PackageValue(package) ==
    [name |-> package.name, version |-> VersionParse(package.version).v,
     sha256 |-> package.sha256, license |-> "MIT", source |-> package.source,
     dependencies |-> [i \in 1..Len(package.dependencies) |-> PackageValue(package.dependencies[i])],
     package_handler_version |-> 0]

\* an App with every field of the struct
AppValue(app) ==
    [name |-> app.name,
     packages |-> [i \in 1..Len(app.packages) |-> PackageValue(app.packages[i])],
     version |-> VersionOf(app), commands |-> app.commands, app_handler_version |-> 0]

AppLists ==
    {<<>>, <<AppValue(AppTool)>>, <<AppValue(AppWrap), AppValue(AppTool)>>,
     <<AppValue(AppTool), AppValue(AppWrap)>>, <<AppValue(AppSuite)>>}

\* the registry documents: Artifactory values
ArtifactoryValues ==
    {[name |-> "Test Artifactory", description |-> d, apps |-> a, maintainer |-> m,
      public |-> p, artifactory_handler_version |-> h] :
        d \in {None, "Test description"}, a \in AppLists, m \in {None, "Test User"},
        p \in BOOLEAN, h \in {0, 1, 255}}

RECURSIVE PackageValuesIn(_)
\* a package value and, transitively, its dependencies
PackageValuesIn(package) ==
    {package} \cup UNION {PackageValuesIn(package.dependencies[i]) : i \in 1..Len(package.dependencies)}

PackageValuesOf(artifactory) ==
    UNION {UNION {PackageValuesIn(artifactory.apps[i].packages[j])
                     : j \in 1..Len(artifactory.apps[i].packages)}
              : i \in 1..Len(artifactory.apps)}

TomlString(s) == [t |-> "string", v |-> s]
TomlInteger(n) == [t |-> "integer", v |-> n]
TomlBoolean(b) == [t |-> "boolean", v |-> b]
TomlArray(tables) == [t |-> "array", v |-> tables]
EmptyTable == [k \in {} |-> TomlBoolean(FALSE)]

\* Option<String>: None writes no key, Some(s) writes the string
SerializeOption(key, x) == IF x = None THEN EmptyTable ELSE key :> TomlString(x)

\* AppCommand { command, path }
SerializeCommand(cmd) ==
    ("command" :> TomlString(cmd.command)) @@ ("path" :> TomlString(cmd.path))

RECURSIVE SerializePackage(_)
\* Package: the fields in declaration order, the dependencies as an array
\* of tables
SerializePackage(package) ==
    ("name" :> TomlString(package.name))
        @@ ("version" :> TomlString(VersionDisplay(package.version)))
        @@ ("sha256" :> TomlString(package.sha256))
        @@ ("license" :> TomlString(package.license))
        @@ SerializeOption("source", package.source)
        @@ ("dependencies" :> TomlArray([i \in 1..Len(package.dependencies)
                                            |-> SerializePackage(package.dependencies[i])]))
        @@ ("package_handler_version" :> TomlInteger(package.package_handler_version))

\* App
SerializeApp(app) ==
    ("name" :> TomlString(app.name))
        @@ ("packages" :> TomlArray([i \in 1..Len(app.packages) |-> SerializePackage(app.packages[i])]))
        @@ ("version" :> TomlString(VersionDisplay(app.version)))
        @@ ("commands" :> TomlArray([i \in 1..Len(app.commands) |-> SerializeCommand(app.commands[i])]))
        @@ ("app_handler_version" :> TomlInteger(app.app_handler_version))

\* SerializeArtifactory with the apps written in reverse order
SerializeArtifactory_Reversed(artifactory) ==
    ("name" :> TomlString(artifactory.name))
        @@ SerializeOption("description", artifactory.description)
        @@ ("apps" :> TomlArray([i \in 1..Len(artifactory.apps)
                                    |-> SerializeApp(artifactory.apps[Len(artifactory.apps) + 1 - i])]))
        @@ SerializeOption("maintainer", artifactory.maintainer)
        @@ ("public" :> TomlBoolean(artifactory.public))
        @@ ("artifactory_handler_version" :> TomlInteger(artifactory.artifactory_handler_version))

\* Artifactory: toml::to_string of the whole document
SerializeArtifactory(artifactory) ==
    ("name" :> TomlString(artifactory.name))
        @@ SerializeOption("description", artifactory.description)
        @@ ("apps" :> TomlArray([i \in 1..Len(artifactory.apps) |-> SerializeApp(artifactory.apps[i])]))
        @@ SerializeOption("maintainer", artifactory.maintainer)
        @@ ("public" :> TomlBoolean(artifactory.public))
        @@ ("artifactory_handler_version" :> TomlInteger(artifactory.artifactory_handler_version))

\* a required key of the given type is in the table
Has(table, key, type) == key \in DOMAIN table /\ table[key].t = type

\* an optional string key: absent, or a string
MayHave(table, key) == key \in DOMAIN table => table[key].t = "string"

\* a key read as u8
HasU8(table, key) == Has(table, key, "integer") /\ table[key].v \in 0..255

\* a key read as semver::Version
HasVersion(table, key) == Has(table, key, "string") /\ VersionParse(table[key].v).ok

\* Option<String>: a missing key reads as None
DeserializeOption(table, key) == IF key \in DOMAIN table THEN table[key].v ELSE None

DeError == [ok |-> FALSE, value |-> EmptyTable]

\* every element of an array was read
AllOk(results) == \A i \in 1..Len(results) : results[i].ok
Values(results) == [i \in 1..Len(results) |-> results[i].value]

DeserializeCommand(table) ==
    IF Has(table, "command", "string") /\ Has(table, "path", "string")
    THEN [ok |-> TRUE, value |-> [command |-> table["command"].v, path |-> table["path"].v]]
    ELSE DeError

\* the package read from its scalar keys and its dependencies already read
PackageRead(table, dependencies) ==
    IF AllOk(dependencies)
    THEN [ok |-> TRUE,
          value |-> [name |-> table["name"].v,
                     version |-> VersionParse(table["version"].v).v,
                     sha256 |-> table["sha256"].v, license |-> table["license"].v,
                     source |-> DeserializeOption(table, "source"),
                     dependencies |-> Values(dependencies),
                     package_handler_version |-> table["package_handler_version"].v]]
    ELSE DeError

RECURSIVE DeserializePackage(_)
\* Package: every key but source is required
DeserializePackage(table) ==
    IF /\ Has(table, "name", "string") /\ HasVersion(table, "version")
       /\ Has(table, "sha256", "string") /\ Has(table, "license", "string")
       /\ MayHave(table, "source") /\ Has(table, "dependencies", "array")
       /\ HasU8(table, "package_handler_version")
    THEN PackageRead(table, [i \in 1..Len(table["dependencies"].v)
                                |-> DeserializePackage(table["dependencies"].v[i])])
    ELSE DeError

AppRead(table, packages, commands) ==
    IF AllOk(packages) /\ AllOk(commands)
    THEN [ok |-> TRUE,
          value |-> [name |-> table["name"].v, packages |-> Values(packages),
                     version |-> VersionParse(table["version"].v).v,
                     commands |-> Values(commands),
                     app_handler_version |-> table["app_handler_version"].v]]
    ELSE DeError

DeserializeApp(table) ==
    IF /\ Has(table, "name", "string") /\ Has(table, "packages", "array")
       /\ HasVersion(table, "version") /\ Has(table, "commands", "array")
       /\ HasU8(table, "app_handler_version")
    THEN AppRead(table,
                 [i \in 1..Len(table["packages"].v) |-> DeserializePackage(table["packages"].v[i])],
                 [i \in 1..Len(table["commands"].v) |-> DeserializeCommand(table["commands"].v[i])])
    ELSE DeError

ArtifactoryRead(table, apps) ==
    IF AllOk(apps)
    THEN [ok |-> TRUE,
          value |-> [name |-> table["name"].v,
                     description |-> DeserializeOption(table, "description"),
                     apps |-> Values(apps),
                     maintainer |-> DeserializeOption(table, "maintainer"),
                     public |-> table["public"].v,
                     artifactory_handler_version |-> table["artifactory_handler_version"].v]]
    ELSE DeError

\* Artifactory: toml::from_str of the whole document
DeserializeArtifactory(table) ==
    IF /\ Has(table, "name", "string") /\ MayHave(table, "description")
       /\ Has(table, "apps", "array") /\ MayHave(table, "maintainer")
       /\ Has(table, "public", "boolean") /\ HasU8(table, "artifactory_handler_version")
    THEN ArtifactoryRead(table, [i \in 1..Len(table["apps"].v) |-> DeserializeApp(table["apps"].v[i])])
    ELSE DeError

----------------------------------------------------------------------------
(* The state machine *)

\* no resolution or subscription command has run
NoOut ==
    [op |-> "none", arg |-> None, ok |-> TRUE, err |-> NoFault,
     app |-> NoApp, provider |-> NoProvider, log |-> <<>>]

\* the configuration after Config::default(), the history variables reset
ConfigIdle ==
    /\ providers = {}
    /\ subscribed_artifactories = <<>>
    /\ out = NoOut
    /\ clock = 0
    /\ added_at = [n \in SubscriptionNames |-> 0]

\* an empty install root and executable-search directory
InstallIdle ==
    /\ registry = {}
    /\ fs = (<<>> :> Dir)
    /\ links = [c \in CommandNames |-> Absent]
    /\ last = [op |-> "init", arg |-> None, ok |-> TRUE, err |-> NoErr, log |-> <<>>]

Done(op, arg, st0, st) ==
    /\ registry' = registry
    /\ fs' = st.fs
    /\ links' = st.links
    /\ last' = [op |-> op, arg |-> arg, ok |-> st.ok, err |-> st.err, log |-> st.log]
    /\ UNCHANGED <<providers, subscribed_artifactories, out, clock, added_at>>

\* main.rs lines 46-62: diem install <app>
InstallApp ==
    \E app \in registry : \E env \in Envs(PackagesOf({app})) :
        \E st \in install_app(Start(fs, links), app, env) :
            Done("install_app", app, Start(fs, links), st)

\* PackageManager::install_package
InstallPackage ==
    \E package \in PackagesOf(registry) : \E env \in Envs(Closure(package)) :
        Done("install", package, Start(fs, links), install_package(Start(fs, links), package, env))

\* main.rs lines 69-90: diem update <app>
UpdateApp ==
    \E app \in registry : \E env \in Envs(PackagesOf({app})) :
        Done("update_app", app, Start(fs, links), UpdatePackages(Start(fs, links), app.packages, 1, env))

\* main.rs lines 63-68 (diem remove <package>) and uninstall_package with a version
Uninstall ==
    \E package \in PackagesOf(registry) : \E version \in {None, package.version} :
        Done("uninstall", [name |-> package.name, version |-> version], Start(fs, links),
             uninstall_package(Start(fs, links), package.name, version))

----------------------------------------------------------------------------
Init ==
    /\ registry \in Registries
    /\ fs = (<<>> :> Dir)
    /\ links = [c \in CommandNames |-> Absent]
    /\ last = [op |-> "init", arg |-> None, ok |-> TRUE, err |-> NoErr, log |-> <<>>]
    /\ ConfigIdle

Next == InstallApp \/ InstallPackage \/ UpdateApp \/ Uninstall

Spec == Init /\ [][Next]_vars

----------------------------------------------------------------------------
(* Resolution: one find_app per invocation (main.rs lines 57 and 79), on   *)
(* any configuration the provider and subscription commands can leave      *)

FindApp ==
    /\ out.op = "none"
    /\ \E app_spec \in Queries, order \in Orders(providers), line \in StdinLines :
           LET r == find_app(order, subscribed_artifactories, app_spec, line) IN
           out' = [op |-> "find_app",
                   arg |-> [app_spec |-> app_spec, order |-> order,
                            stdin |-> IF r.log = <<>> THEN Unread ELSE line],
                   ok |-> r.ok, err |-> r.err, app |-> r.app,
                   provider |-> r.provider, log |-> r.log]
    /\ UNCHANGED <<registry, fs, links, last, providers, subscribed_artifactories,
                   clock, added_at>>

InitResolve ==
    /\ InstallIdle
    /\ providers \in ProviderMaps
    /\ subscribed_artifactories \in SubscriptionLists
    /\ out = NoOut
    /\ clock = 0
    /\ added_at = [n \in SubscriptionNames |-> 0]

NextResolve == FindApp

SpecResolve == InitResolve /\ [][NextResolve]_vars

----------------------------------------------------------------------------
(* The subscription commands of main.rs on ArtifactoryManager *)

ConfigOut(op, arg, r) ==
    [op |-> op, arg |-> arg, ok |-> r.ok, err |-> [kind |-> r.kind, query |-> <<>>],
     app |-> NoApp, provider |-> NoProvider, log |-> <<>>]

\* main.rs lines 260-273: diem artifactory subscribe; the configuration is
\* stored only when add_subscription succeeds
Subscribe ==
    /\ \E sub \in SubscriptionUniverse :
           LET r == add_subscription(subscribed_artifactories, sub) IN
           /\ r.ok => clock < MaxClock
           /\ subscribed_artifactories' =
                  IF r.ok THEN list_subscribed(r.subs) ELSE subscribed_artifactories
           /\ out' = ConfigOut("add_subscription", sub, r)
           /\ clock' = IF r.ok THEN clock + 1 ELSE clock
           /\ added_at' = IF r.ok THEN [added_at EXCEPT ![sub.name] = clock + 1] ELSE added_at
    /\ UNCHANGED <<registry, fs, links, last, providers>>

\* main.rs lines 275-283: diem artifactory unsubscribe
Unsubscribe ==
    /\ \E name \in SubscriptionNames \cup {"nosuch"} :
           LET r == remove_subscription(subscribed_artifactories, name) IN
           /\ subscribed_artifactories' =
                  IF r.ok THEN list_subscribed(r.subs) ELSE subscribed_artifactories
           /\ out' = ConfigOut("remove_subscription", name, r)
           /\ added_at' = IF r.ok THEN [added_at EXCEPT ![name] = 0] ELSE added_at
    /\ UNCHANGED <<registry, fs, links, last, providers, clock>>

\* main.rs lines 142-187 (diem providers add) and ProviderManager::add_provider;
\* out.provider is the provider the insert displaced
AddProvider ==
    /\ \E provider \in ProviderUniverse :
           LET r == add_provider(providers, provider) IN
           /\ providers' = IF r.ok THEN r.providers ELSE providers
           /\ out' = [ConfigOut("add_provider", provider, r) EXCEPT !.provider = r.old]
    /\ UNCHANGED <<registry, fs, links, last, subscribed_artifactories, clock, added_at>>

\* main.rs lines 188-199: diem providers remove; out.provider is the
\* provider that was removed
RemoveProvider ==
    /\ \E name \in {p.name : p \in ProviderUniverse} \cup {"nosuch"} :
           LET r == remove_provider(providers, name) IN
           /\ providers' = IF r.ok THEN r.providers ELSE providers
           /\ out' = [ConfigOut("remove_provider", name, r) EXCEPT !.provider = r.old]
    /\ UNCHANGED <<registry, fs, links, last, subscribed_artifactories, clock, added_at>>

InitConfig == InstallIdle /\ ConfigIdle

NextConfig == Subscribe \/ Unsubscribe \/ AddProvider \/ RemoveProvider

SpecConfig == InitConfig /\ [][NextConfig]_vars

----------------------------------------------------------------------------
(* Synchronisation: one copy_dir_contents or one diem sync per run, on any *)
(* of the trees                                                             *)

SyncDone(op, arg, r) ==
    /\ fs' = r.fs
    /\ last' = [op |-> op, arg |-> arg, ok |-> r.ok,
                err |-> [NoErr EXCEPT !.kind = r.kind], log |-> <<>>]
    /\ UNCHANGED <<registry, links, providers, subscribed_artifactories, out, clock, added_at>>

\* copy_dir_contents(src, dst), as config/tests.rs lines 81-108 calls it
CopyDirContents ==
    /\ last.op = "init"
    /\ \E src \in CopyPaths, dst \in CopyPaths :
           \E r \in copy_dir_contents(fs, src, dst) :
               SyncDone("copy_dir_contents", [src |-> src, dst |-> dst], r)

\* main.rs lines 124-133: diem sync
Sync ==
    /\ last.op = "init"
    /\ \E config \in SyncConfigs :
           \E r \in sync_goinfre_from_sgoinfre(fs, config) :
               SyncDone("sync", config, r)

InitSync ==
    /\ registry = {}
    /\ fs \in Trees
    /\ links = [c \in CommandNames |-> Absent]
    /\ last = [op |-> "init", arg |-> None, ok |-> TRUE, err |-> NoErr, log |-> <<>>]
    /\ ConfigIdle

NextSync == CopyDirContents \/ Sync

SpecSync == InitSync /\ [][NextSync]_vars

----------------------------------------------------------------------------
(* Serialization: a registry document, or one of its packages, is written  *)
(* with toml::to_string and the text is read back with toml::from_str      *)

\* artifactory/tests.rs line 47 and package/tests.rs lines 22 and 61
Serialize ==
    /\ out.op = "none"
    /\ \/ out' = [op |-> "to_string", type |-> "Artifactory", arg |-> registry,
                  ok |-> TRUE, toml |-> SerializeArtifactory(registry)]
       \/ \E package \in PackageValuesOf(registry) :
             out' = [op |-> "to_string", type |-> "Package", arg |-> package,
                     ok |-> TRUE, toml |-> SerializePackage(package)]
    /\ UNCHANGED <<registry, fs, links, last, providers, subscribed_artifactories,
                   clock, added_at>>

\* artifactory/tests.rs line 50 and package/tests.rs lines 25 and 64
Parse ==
    /\ out.op = "to_string"
    /\ LET r == IF out.type = "Artifactory" THEN DeserializeArtifactory(out.toml)
                ELSE DeserializePackage(out.toml)
       IN  out' = [op |-> "from_str", type |-> out.type, arg |-> out.arg,
                   ok |-> r.ok, value |-> r.value]
    /\ UNCHANGED <<registry, fs, links, last, providers, subscribed_artifactories,
                   clock, added_at>>

InitCodec ==
    /\ registry \in ArtifactoryValues
    /\ fs = (<<>> :> Dir)
    /\ links = [c \in CommandNames |-> Absent]
    /\ last = [op |-> "init", arg |-> None, ok |-> TRUE, err |-> NoErr, log |-> <<>>]
    /\ ConfigIdle

NextCodec == Serialize \/ Parse

SpecCodec == InitCodec /\ [][NextCodec]_vars

----------------------------------------------------------------------------
(* Properties *)

PkgByKey(n, v) == CHOOSE p \in Packages : p.name = n /\ p.version = v
IsPkgKey(n, v) == \E p \in Packages : p.name = n /\ p.version = v
Key(ev, package) == ev.n = package.name /\ ev.v = package.version
LogIdx == 1..Len(last.log)
CommandsOf(app) == {app.commands[i] : i \in 1..Len(app.commands)}
ProbeCommands == UNION {CommandsOf(a) : a \in Apps}

\* C1: a version directory that a call created and that is still there after
\* the call belongs to a package whose artifact was fetched and hashed to the
\* declared sha256 in that call; a failed install leaves no version directory.
C1_DirOnlyIfVerified ==
    \A i \in LogIdx :
        LET ev == last.log[i] IN
        (ev.e = "mkdir" /\ PkgByKey(ev.n, ev.v).source # None /\ Exists(fs, <<ev.n, ev.v>>))
            => \E j \in LogIdx : j > i /\ last.log[j].e = "verified"
                                 /\ last.log[j].n = ev.n /\ last.log[j].v = ev.v

\* C2: when the fetched bytes do not hash to the declared sha256, the call
\* fails with a checksum-mismatch error naming the package, the expected and
\* the actual digest, and no directory is left at <root>/<name>/<version>.
C2_ChecksumMismatch ==
    \A i \in LogIdx :
        LET ev == last.log[i] IN
        (ev.e = "verify" /\ ev.h # PkgByKey(ev.n, ev.v).sha256)
            => /\ ~last.ok
               /\ last.err = [kind |-> "ChecksumMismatch", name |-> ev.n,
                              expected |-> PkgByKey(ev.n, ev.v).sha256,
                              actual |-> ev.h, path |-> <<>>]
               /\ ~Exists(fs, <<ev.n, ev.v>>)

C2_Witness ==
    /\ last.op = "install"
    /\ last.err.kind = "ChecksumMismatch"
    /\ \E i \in LogIdx : last.log[i].e = "verify" /\ last.log[i].h # last.arg.sha256
                         /\ Key(last.log[i], last.arg)

\* C3: install of a package whose version directory already exists succeeds
\* with no fetch, verification, extraction or directory creation, for the
\* package and for its dependencies, and leaves the install root unchanged.
C3_InstalledShortCircuits ==
    [][(last'.op = "install" /\ Exists(fs, PackageDir(last'.arg)))
          => /\ last'.ok
             /\ fs' = fs
             /\ \A i \in 1..Len(last'.log) :
                    last'.log[i].e \notin {"mkdir", "fetch", "verify", "extract"}]_vars

Completes(ev, package) == ev.e \in {"done", "already"} /\ Key(ev, package)

\* the dependencies from the k-th on complete one after the other, in list
\* order, between the log positions from and until, each one's steps
\* touching only that dependency and its own dependencies
RECURSIVE DepsInOrder(_, _, _, _, _)
DepsInOrder(log, deps, k, from, until) ==
    \/ k > Len(deps)
    \/ \E j \in (from + 1)..(until - 1) :
          /\ Completes(log[j], deps[k])
          /\ \A m \in (from + 1)..j : \E p \in Closure(deps[k]) : Key(log[m], p)
          /\ DepsInOrder(log, deps, k + 1, j, until)

\* the position at which the install that step i belongs to was entered
EnterOf(log, i) ==
    CHOOSE a \in 1..i :
        /\ log[a].e = "enter" /\ log[a].n = log[i].n /\ log[a].v = log[i].v
        /\ \A b \in (a + 1)..i : ~(log[b].e = "enter" /\ log[b].n = log[i].n /\ log[b].v = log[i].v)

\* C4: the directory of a package is created and its artifact fetched only
\* after every dependency has been installed, depth-first, one at a time and
\* in list order; when a dependency fails the call fails and the parent's
\* directory is neither created nor its artifact fetched.
C4_DependenciesFirst ==
    /\ \A i \in LogIdx :
          LET ev == last.log[i] IN
          (ev.e \in {"check", "mkdir", "fetch"} /\ IsPkgKey(ev.n, ev.v))
              => DepsInOrder(last.log, PkgByKey(ev.n, ev.v).dependencies, 1,
                             EnterOf(last.log, i), i)
    /\ \A a \in LogIdx :
          LET ev == last.log[a] IN
          (/\ ev.e = "enter"
           /\ \E k \in 1..Len(PkgByKey(ev.n, ev.v).dependencies) :
                 \E b \in LogIdx :
                    /\ b > a
                    /\ last.log[b].e = "enter"
                    /\ Key(last.log[b], PkgByKey(ev.n, ev.v).dependencies[k])
                    /\ \A c \in LogIdx :
                          c > b => ~Completes(last.log[c], PkgByKey(ev.n, ev.v).dependencies[k]))
              => /\ ~last.ok
                 /\ \A c \in LogIdx :
                       c > a => ~(last.log[c].e \in {"check", "mkdir", "fetch"}
                                  /\ last.log[c].n = ev.n /\ last.log[c].v = ev.v)

C4_Witness ==
    /\ last.op = "install"
    /\ last.arg = PkgWrap
    /\ last.ok
    /\ \E i, j \in LogIdx :
          /\ i < j
          /\ last.log[i].e = "done" /\ Key(last.log[i], PkgLib)
          /\ last.log[j].e = "mkdir" /\ Key(last.log[j], PkgWrap)

\* C5: once the package tool 1.2.0 has installed successfully, the file
\* <root>/tool/1.2.0/bin/tool exists, and install of the app tool succeeds
\* with the link tool resolving to that file.
C5_EndToEnd ==
    (\E i \in LogIdx : last.log[i].e = "done" /\ Key(last.log[i], PkgTool))
        => /\ IsFile(fs, <<"tool", "1.2.0", "bin", "tool">>)
           /\ (last.op = "install_app" /\ last.arg = AppTool)
                 => /\ last.ok
                    /\ links["tool"] # Absent
                    /\ RealPath(fs, links["tool"]) = <<"tool", "1.2.0", "bin", "tool">>

\* C6: once the package wrap 1.0.0, whose archive holds only foo/bin/run,
\* has installed successfully, <dest>/bin/run exists and <dest>/foo does not.
C6_Normalized ==
    (\E i \in LogIdx : last.log[i].e = "done" /\ Key(last.log[i], PkgWrap))
        => /\ IsFile(fs, <<"wrap", "1.0.0", "bin", "run">>)
           /\ ~Exists(fs, <<"wrap", "1.0.0", "foo">>)

\* C7: linking a command never fails because something is already present
\* under the link name in the executable-search directory.
C7_RelinkNeverFails == last.err.kind # "AlreadyExists"

\* C8: after a successful install or update of an app, the link of every
\* command of the app points into the directory of the app's first package.
C8_UpdateRelinks ==
    (last.op \in {"install_app", "update_app"} /\ last.ok)
        => \A cmd \in CommandsOf(last.arg) :
              /\ links[cmd.command] # Absent
              /\ IsPrefix(PackageDir(last.arg.packages[1]), links[cmd.command])

\* C9: a command whose declared path did not exist and whose binary was
\* found at the flattened path or by the recursive search is linked, and
\* the link resolves to a file with the name of the declared path.
C9_FallbackLinks ==
    \A i \in LogIdx :
        LET ev == last.log[i] IN
        (last.op = "install_app" /\ ev.e = "found")
            => /\ \E j \in LogIdx : j > i /\ last.log[j].e = "link" /\ last.log[j].n = ev.n
               /\ links[ev.n] # Absent
               /\ IsFile(fs, links[ev.n])

\* the declared path of the command and the flattened path are both absent
\* below dir
NeitherPathExists(f, dir, cmd) ==
    /\ IsDir(f, dir)
    /\ ~Exists(f, dir \o cmd.path)
    /\ ~Exists(f, Append(dir, Filename(cmd.path)))

FailsNotFound(dir, cmd) ==
    \A o \in LinkCommand(Start(fs, links), cmd, dir) :
        /\ ~o.ok
        /\ o.err.kind = "BinaryNotFound"
        /\ o.err.path = dir \o cmd.path
        /\ o.links = links

\* C10 as stated: when no file below the package directory has a name equal
\* to the file name of the declared path, linking fails with binary-not-found
\* carrying the expected path and creates no link.
C10_NoEqualNameFails ==
    \A package \in PackagesOf(registry), cmd \in ProbeCommands :
        LET dir == PackageDir(package) IN
        (/\ NeitherPathExists(fs, dir, cmd)
         /\ ~\E q \in DOMAIN fs : /\ IsPrefix(dir, q) /\ q # dir /\ ~IsDir(fs, q)
                                  /\ Filename(q) = Filename(cmd.path))
            => FailsNotFound(dir, cmd)

\* the install root as the search sees it: the parent directories of the
\* declared path are created before the search (lines 184-193)
BeforeSearch(f, dir, cmd) ==
    IF Len(cmd.path) > 1 THEN CreateDirAll(f, Parent(dir \o cmd.path)).fs ELSE f

\* C10 amended: when no file below the package directory has a name equal,
\* letter case ignored, to the file name of the declared path, and no
\* directory of the package tree holds bin/<file name>, linking fails with
\* binary-not-found carrying the expected path and creates no link.
C10_NoMatchFails ==
    \A package \in PackagesOf(registry), cmd \in ProbeCommands :
        LET dir == PackageDir(package)
            f1 == BeforeSearch(fs, dir, cmd)
        IN  (/\ NeitherPathExists(fs, dir, cmd)
             /\ ~\E q \in DOMAIN f1 :
                    /\ IsPrefix(dir, q) /\ q # dir /\ ~IsDir(f1, q)
                    /\ ToLowercase(Filename(q)) = ToLowercase(Filename(cmd.path))
             /\ ~\E d \in DOMAIN f1 :
                    IsPrefix(dir, d) /\ Exists(f1, d \o <<"bin", Filename(cmd.path)>>))
                => FailsNotFound(dir, cmd)

C10_Witness ==
    /\ last.op = "install_app"
    /\ last.err.kind = "BinaryNotFound"
    /\ last.err.path = PackageDir(last.arg.packages[1]) \o last.arg.commands[1].path
    /\ \E i \in LogIdx : last.log[i].e = "notfound"

----------------------------------------------------------------------------
(* Properties of resolution *)

\* the registry of a source can be loaded
LoadsProvider(provider) ==
    \/ provider.source.kind = "Github" /\ provider.source.at = GhB
    \/ /\ provider.source.kind = "Artifactory"
       /\ provider.source.at \in DOMAIN RegistryFiles
       /\ RegistryFiles[provider.source.at].valid
LoadsSubscription(sub) ==
    /\ sub.source.kind = "Local"
    /\ sub.source.at \in DOMAIN RegistryFiles
    /\ RegistryFiles[sub.source.at].valid

\* the apps a loadable source lists, in document order
AppsOfProvider(provider) ==
    IF provider.source.kind = "Github" THEN <<AppGreet2, AppTool>>
    ELSE RegistryFiles[provider.source.at].apps
AppsOfSubscription(sub) == RegistryFiles[sub.source.at].apps

\* a source as a candidate's origin: its kind, name and location
OriginOfProvider(provider) ==
    [kind |-> "Provider", name |-> provider.name, at |-> provider.source.at]
OriginOfSubscription(sub) ==
    [kind |-> "Artifactory", name |-> sub.name, at |-> sub.source.at]

\* every app of every loadable source with its origin: the providers in the
\* given order, then the subscriptions in list order, each in document order
RECURSIVE Listed(_, _, _)
Listed(order, subs, i) ==
    IF i <= Len(order)
    THEN (IF LoadsProvider(order[i])
          THEN [k \in 1..Len(AppsOfProvider(order[i])) |->
                   [app |-> AppsOfProvider(order[i])[k], origin |-> OriginOfProvider(order[i])]]
          ELSE <<>>) \o Listed(order, subs, i + 1)
    ELSE IF i <= Len(order) + Len(subs)
    THEN LET sub == subs[i - Len(order)] IN
         (IF LoadsSubscription(sub)
          THEN [k \in 1..Len(AppsOfSubscription(sub)) |->
                   [app |-> AppsOfSubscription(sub)[k], origin |-> OriginOfSubscription(sub)]]
          ELSE <<>>) \o Listed(order, subs, i + 1)
    ELSE <<>>

\* the candidates of a query name or name@version, in candidate order
CandidatesOf(order, subs, app_spec) ==
    SelectSeq(Listed(order, subs, 1), LAMBDA c :
        /\ c.app.name = app_spec[1]
        /\ Len(app_spec) > 1 => c.app.version = app_spec[2])

\* the candidates of the resolution recorded in out
OutCandidates == CandidatesOf(out.arg.order, subscribed_artifactories, out.arg.app_spec)

Prompted == \E i \in 1..Len(out.log) : out.log[i].e = "read"

\* C11: a query name@version never prompts the operator, and an app it
\* returns has that name and exactly that version and is the first candidate
\* in candidate order.
C11_PinnedVersion ==
    (out.op = "find_app" /\ Len(out.arg.app_spec) = 2)
        => /\ ~Prompted
           /\ out.arg.stdin = Unread
           /\ out.ok => /\ out.app.name = out.arg.app_spec[1]
                        /\ out.app.version = out.arg.app_spec[2]
                        /\ OutCandidates # <<>>
                        /\ out.app = OutCandidates[1].app

\* a pinned query matched by several candidates has returned an app
C11_Witness ==
    /\ out.op = "find_app"
    /\ Len(out.arg.app_spec) = 2
    /\ out.ok
    /\ Len(OutCandidates) > 1
    /\ OutCandidates[1].origin.name # OutCandidates[2].origin.name

\* the line typed is an integer of 1..n
ChoiceIn(line, n) == ParseChoice(line).ok /\ ParseChoice(line).n \in 1..n

\* the provider returned is the candidate's own source: the configured
\* provider of that name, or a source at the subscription's location
IsOrigin(provider, origin) ==
    IF origin.kind = "Provider"
    THEN provider \in providers /\ provider.name = origin.name
    ELSE provider.source.at = origin.at

\* C12: a query without a version that matches N > 1 apps lists the N
\* candidates (index, name, version, origin) and then reads the selection; a
\* selection outside 1..N is an error with nothing selected, and a selection
\* k returns the k-th listed candidate with that candidate's own source.
C12_AmbiguousSelection ==
    (out.op = "find_app" /\ Len(out.arg.app_spec) = 1 /\ Len(OutCandidates) > 1)
        => LET n == Len(OutCandidates)
               line == out.log[n + 1].name
               k == ParseChoice(line).n
           IN  /\ Len(out.log) = n + 1
               /\ \A i \in 1..n :
                      /\ out.log[i].e = "candidate"
                      /\ out.log[i].i = i
                      /\ out.log[i].name = OutCandidates[i].app.name
                      /\ out.log[i].version = OutCandidates[i].app.version
                      /\ out.log[i].source = <<OutCandidates[i].origin.kind,
                                               OutCandidates[i].origin.name>>
               /\ out.log[n + 1].e = "read"
               /\ ~ChoiceIn(line, n)
                      => ~out.ok /\ out.app = NoApp /\ out.provider = NoProvider
               /\ ChoiceIn(line, n)
                      => /\ out.ok
                         /\ out.app = OutCandidates[k].app
                         /\ IsOrigin(out.provider, OutCandidates[k].origin)

\* the providers of an order that can be loaded, in that order, and the
\* subscriptions of a list that can be loaded, in list order
LoadableProviders(order) == SelectSeq(order, LoadsProvider)
LoadableSubscriptions(subs) == SelectSeq(subs, LoadsSubscription)

\* the outcome recorded in out, as find_app returns it
OutResult ==
    [ok |-> out.ok, err |-> out.err, app |-> out.app, provider |-> out.provider, log |-> out.log]

\* C13: a source whose registry cannot be fetched or parsed, or that is a
\* remote subscription, contributes nothing and never fails the resolution:
\* the outcome is that of resolving against the loadable sources only.
C13_BrokenSourcesSkipped ==
    out.op = "find_app"
        => /\ OutResult = find_app(LoadableProviders(out.arg.order),
                                   LoadableSubscriptions(subscribed_artifactories),
                                   out.arg.app_spec, out.arg.stdin)
           /\ \A i \in 1..Len(out.log) :
                  out.log[i].e = "candidate" =>
                      \/ \E p \in providers :
                             LoadsProvider(p) /\ out.log[i].source = <<"Provider", p.name>>
                      \/ \E j \in 1..Len(subscribed_artifactories) :
                             /\ LoadsSubscription(subscribed_artifactories[j])
                             /\ out.log[i].source =
                                    <<"Artifactory", subscribed_artifactories[j].name>>

\* an app was resolved although the first provider asked and the first
\* subscription cannot be loaded
C13_Witness ==
    /\ out.op = "find_app"
    /\ out.ok
    /\ Len(out.arg.order) > 1
    /\ ~LoadsProvider(out.arg.order[1])
    /\ Len(subscribed_artifactories) > 1
    /\ ~LoadsSubscription(subscribed_artifactories[1])
    /\ subscribed_artifactories[1].source.kind = "Remote"
    /\ Len(OutCandidates) > 1

NotFoundNamingQuery ==
    /\ ~out.ok
    /\ out.err.kind = "NotFound"
    /\ out.err.query = out.arg.app_spec
    /\ out.app = NoApp
    /\ out.provider = NoProvider

\* C14 as stated: when no app of a loadable source has the queried name (and
\* the requested version, when one is given), the resolution fails with a
\* not-found error naming the query and selects nothing.
C14_NoMatchNotFound ==
    (out.op = "find_app" /\ Len(out.arg.app_spec) <= 2 /\ OutCandidates = <<>>)
        => NotFoundNamingQuery

\* C14 amended: the same, for a query whose version, when one is given, is
\* a valid semantic version.
C14_ValidQueryNotFound ==
    (/\ out.op = "find_app"
     /\ Len(out.arg.app_spec) <= 2
     /\ Len(out.arg.app_spec) = 2 => VersionParse(out.arg.app_spec[2]).ok
     /\ OutCandidates = <<>>)
        => NotFoundNamingQuery

\* a pinned query was not found although sources are configured, none of
\* which can be loaded
C14_Witness ==
    /\ out.op = "find_app"
    /\ Len(out.arg.app_spec) = 2
    /\ NotFoundNamingQuery
    /\ providers # {}
    /\ subscribed_artifactories # <<>>
    /\ \A p \in providers : ~LoadsProvider(p)
    /\ \A i \in 1..Len(subscribed_artifactories) : ~LoadsSubscription(subscribed_artifactories[i])

\* the candidate a successful resolution returned: the one typed when the
\* operator was asked, the first one otherwise
OutSelected ==
    IF Prompted THEN OutCandidates[ParseChoice(out.arg.stdin).n] ELSE OutCandidates[1]

PackagesOfApp(app) == {app.packages[i] : i \in 1..Len(app.packages)}

\* C15: a resolution returns the app with its originating source: the
\* configured provider, or a source at the location of the subscription,
\* whose document lists the app, so that the artifacts of the app's packages
\* are looked for next to that registry.
C15_OriginatingSource ==
    (out.op = "find_app" /\ Len(out.arg.app_spec) <= 2 /\ out.ok)
        => /\ out.app = OutSelected.app
           /\ IsOrigin(out.provider, OutSelected.origin)
           /\ out.provider.source.at = OutSelected.origin.at
           /\ out.provider.source.kind = "Artifactory"
                  => \A package \in PackagesOfApp(out.app) :
                         \E i \in 1..Len(possible_paths(out.provider.source.at, package.source)) :
                             possible_paths(out.provider.source.at, package.source)[i]
                                 = Append(Parent(OutSelected.origin.at), package.source)

\* C16: a second run of the resolution recorded in out, on the same
\* configuration and registry contents, enumerates the apps of the sources
\* in the same order, has the same candidates in the same order, and, when
\* the operator is not asked, returns the same app and source.
C16_Deterministic ==
    out.op = "find_app"
        => \A order2 \in Orders(providers) :
               LET again == find_app(order2, subscribed_artifactories,
                                     out.arg.app_spec, out.arg.stdin)
               IN  /\ Listed(order2, subscribed_artifactories, 1)
                          = Listed(out.arg.order, subscribed_artifactories, 1)
                   /\ CandidatesOf(order2, subscribed_artifactories, out.arg.app_spec)
                          = OutCandidates
                   /\ ~Prompted => again.app = out.app /\ again.provider = out.provider

----------------------------------------------------------------------------
(* Properties of the subscription list *)

NamePresent(subs, name) == \E i \in 1..Len(subs) : subs[i].name = name

\* the subscriptions are listed in the order in which they were added
InInsertionOrder(subs) ==
    /\ \A i \in 1..Len(subs) : added_at[subs[i].name] > 0
    /\ \A i, j \in 1..Len(subs) : i < j => added_at[subs[i].name] < added_at[subs[j].name]

\* C17: add_subscription fails with AlreadyExists and leaves the list
\* unchanged when the name is present, and appends the subscription at the
\* end otherwise; after any sequence of add and remove calls no two
\* subscriptions share a name and list_subscribed is in insertion order.
C17_AddSubscription ==
    /\ \A sub \in SubscriptionUniverse :
           LET r == add_subscription(subscribed_artifactories, sub) IN
           IF NamePresent(subscribed_artifactories, sub.name)
           THEN ~r.ok /\ r.kind = "AlreadyExists" /\ r.subs = subscribed_artifactories
           ELSE r.ok /\ r.subs = subscribed_artifactories \o <<sub>>
    /\ \A i, j \in 1..Len(subscribed_artifactories) :
           i # j => subscribed_artifactories[i].name # subscribed_artifactories[j].name
    /\ InInsertionOrder(list_subscribed(subscribed_artifactories))

\* an add was refused for a name that is present with another source, after
\* a subscription was removed and added again behind a later one
C17_Witness ==
    /\ out.op = "add_subscription"
    /\ ~out.ok
    /\ out.err.kind = "AlreadyExists"
    /\ Len(subscribed_artifactories) = 3
    /\ \E i \in 1..3 : /\ subscribed_artifactories[i].name = out.arg.name
                       /\ subscribed_artifactories[i] # out.arg
    /\ added_at[subscribed_artifactories[3].name] > 3

\* C18: remove_subscription(name) fails with NotFound and leaves the list
\* unchanged when no subscription has that name; otherwise it succeeds,
\* removes that subscription and keeps the others in their order.
C18_RemoveSubscription ==
    \A name \in SubscriptionNames \cup {"nosuch"} :
        LET subs == subscribed_artifactories
            r == remove_subscription(subs, name)
        IN  IF ~NamePresent(subs, name)
            THEN ~r.ok /\ r.kind = "NotFound" /\ r.subs = subs
            ELSE /\ r.ok
                 /\ Len(r.subs) = Len(subs) - 1
                 /\ ~NamePresent(r.subs, name)
                 /\ \E i \in 1..Len(subs) :
                        /\ subs[i].name = name
                        /\ \A k \in 1..Len(r.subs) :
                               r.subs[k] = IF k < i THEN subs[k] ELSE subs[k + 1]

\* a subscription was removed from between two others, which remain
C18_Witness ==
    /\ out.op = "remove_subscription"
    /\ out.ok
    /\ Len(subscribed_artifactories) = 2
    /\ added_at[subscribed_artifactories[1].name] = 1
    /\ added_at[subscribed_artifactories[2].name] = 3
    /\ clock = 3

----------------------------------------------------------------------------
(* Properties of update and uninstall *)

\* the version directories of a package name in an install root
VersionDirs(f, name) == {q \in DOMAIN f : Len(q) = 2 /\ q[1] = name /\ f[q].k = "dir"}

Tail1(log) == SubSeq(log, 2, Len(log))

\* C19: update of a package whose version directory exists fetches nothing
\* and leaves the install root unchanged; otherwise it does what install
\* does; either way the other version directories of the same name remain.
C19_UpdateKeepsVersions ==
    \A package \in PackagesOf(registry) : \A env \in Envs(Closure(package)) :
        LET st0 == Start(fs, links)
            updated == update_package(st0, package, env)
            installed == install_package(st0, package, env)
        IN  /\ Exists(fs, PackageDir(package))
                => /\ updated.ok
                   /\ updated.fs = fs
                   /\ updated.links = links
                   /\ \A i \in 1..Len(updated.log) :
                          updated.log[i].e \notin {"enter", "mkdir", "fetch", "verify", "extract"}
            /\ ~Exists(fs, PackageDir(package))
                => /\ updated.ok = installed.ok
                   /\ updated.err = installed.err
                   /\ updated.fs = installed.fs
                   /\ updated.links = installed.links
                   /\ Tail1(updated.log) = installed.log
            /\ VersionDirs(fs, package.name) \ {PackageDir(package)}
                   \subseteq VersionDirs(updated.fs, package.name)

\* an update installed a version next to an older version of the same name
C19_Witness ==
    /\ last.op = "update_app"
    /\ last.ok
    /\ \E i \in LogIdx : last.log[i].e = "update"
    /\ \E i \in LogIdx : last.log[i].e = "fetch"
    /\ Cardinality(VersionDirs(fs, last.arg.packages[1].name)) > 1

\* C20: uninstall(name, Some(v)) removes exactly <root>/<name>/<v>,
\* uninstall(name, None) removes exactly <root>/<name>; everything else in
\* the install root is untouched, and an absent target is reported without
\* error and without change.
C20_UninstallFrame ==
    \A package \in Packages : \A version \in {None, package.version} :
        LET target == IF version = None THEN <<package.name>>
                      ELSE <<package.name, version>>
            st == uninstall_package(Start(fs, links), package.name, version)
        IN  /\ st.ok
            /\ st.err = NoErr
            /\ st.links = links
            /\ DOMAIN st.fs = {q \in DOMAIN fs : ~IsPrefix(target, q)}
            /\ \A q \in DOMAIN st.fs : st.fs[q] = fs[q]
            /\ ~Exists(fs, target) => st.fs = fs

\* one version of a package was uninstalled and another version of it remains
C20_Witness ==
    /\ last.op = "uninstall"
    /\ last.ok
    /\ last.arg.version # None
    /\ \E i \in LogIdx : last.log[i].e = "removed"
    /\ ~Exists(fs, <<last.arg.name, last.arg.version>>)
    /\ VersionDirs(fs, last.arg.name) # {}

----------------------------------------------------------------------------
(* Properties of the verification and of the source-less install *)

\* two hex digests that differ at most in the case of their letters
EqualIgnoringCase(a, b) == a.h = b.h

\* C21: when the digest computed from the fetched bytes equals the declared
\* sha256 up to letter case, the package is accepted: the verification
\* passes and the install goes on to the extraction.
C21_DigestCaseInsensitive ==
    \A i \in LogIdx :
        LET ev == last.log[i] IN
        (ev.e = "verify" /\ EqualIgnoringCase(ev.h, PkgByKey(ev.n, ev.v).sha256))
            => /\ i < Len(last.log)
               /\ last.log[i + 1].e = "verified"
               /\ Key(last.log[i + 1], PkgByKey(ev.n, ev.v))

\* the call reached the package itself and did not find it installed
InstalledAnew(i) ==
    /\ last.log[i].e = "check"
    /\ ~(i < Len(last.log) /\ last.log[i + 1].e = "already")

\* C22: a package without a source locator that is not yet installed is
\* installed, once its dependencies are, with no fetch and no checksum
\* comparison; the call on it succeeds and <root>/<name>/<version> exists
\* and is empty.
C22_NoSourceInstall ==
    \A i \in LogIdx :
        LET ev == last.log[i]
            package == PkgByKey(ev.n, ev.v)
        IN  (InstalledAnew(i) /\ package.source = None)
                => /\ i + 2 <= Len(last.log)
                   /\ last.log[i + 1].e = "mkdir" /\ Key(last.log[i + 1], package)
                   /\ last.log[i + 2].e = "done" /\ Key(last.log[i + 2], package)
                   /\ \A j \in LogIdx :
                          Key(last.log[j], package)
                              => last.log[j].e \notin {"fetch", "verify", "verified", "extract"}
                   /\ (last.op = "install" /\ last.arg = package) => last.ok
                   /\ IsDir(fs, PackageDir(package))
                   /\ ReadDir(fs, PackageDir(package)) = {}

C22_Witness ==
    /\ last.op = "install" /\ last.arg = PkgMeta /\ last.ok
    /\ \E i \in LogIdx : InstalledAnew(i) /\ Key(last.log[i], PkgMeta)
    /\ \E i \in LogIdx : InstalledAnew(i) /\ Key(last.log[i], PkgKit)
    /\ \E i \in LogIdx : last.log[i].e = "fetch" /\ Key(last.log[i], PkgLib)

\* C23: after an install of a package with a source locator has succeeded,
\* neither the temporary artifact file nor the intermediate decompression
\* file exists in the directory of the package.
C23_NoTemporaryLeft ==
    \A i \in LogIdx :
        LET ev == last.log[i] IN
        (ev.e = "done" /\ PkgByKey(ev.n, ev.v).source # None)
            => /\ ~Exists(fs, <<ev.n, ev.v, TempName>>)
               /\ ~Exists(fs, <<ev.n, ev.v, TempTarName>>)

----------------------------------------------------------------------------
(* Properties of install_app and of the installed-package query *)

\* the directory holds something other than the temporary files
Populated(f, dir) == \E q \in ReadDir(f, dir) : Filename(q) \notin {TempName, TempTarName}

\* C25: install_app runs the package installer on every entry of
\* app.packages, and a package with a source locator that was not installed
\* before the call is fetched and verified before its directory is
\* populated and before any command of the app is linked, whatever the name
\* of the app and the source locator.
C25_NoBypass ==
    [][last'.op = "install_app"
          => LET app == last'.arg
                 log == last'.log
                 VerifiedBefore(package, until) ==
                     \E j \in 1..until : log[j].e = "verified" /\ Key(log[j], package)
             IN  /\ last'.ok
                      => \A k \in 1..Len(app.packages) :
                            \E i \in 1..Len(log) : log[i].e = "enter" /\ Key(log[i], app.packages[k])
                 /\ \A k \in 1..Len(app.packages) :
                       LET package == app.packages[k] IN
                       (package.source # None /\ ~Exists(fs, PackageDir(package)))
                           => /\ Populated(fs', PackageDir(package))
                                    => VerifiedBefore(package, Len(log))
                              /\ \A i \in 1..Len(log) :
                                    log[i].e = "link" => VerifiedBefore(package, i - 1)]_vars

\* C28: is_package_installed(name, Some(v)) answers as the existence check
\* of install does (a call that reaches the check ends "already installed"
\* exactly when the query is true), and is_package_installed(name, None) is
\* true only if some version of the package is installed.
C28_InstalledQuery ==
    \A package \in PackagesOf(registry) :
        /\ \A env \in Envs(Closure(package)) :
              LET r == install_package(Start(fs, links), package, env)
                  n == Len(r.log)
              IN  (\E i \in 1..n : r.log[i].e = "check" /\ Key(r.log[i], package))
                      => (is_package_installed(fs, package.name, package.version)
                             <=> (r.ok /\ r.log[n].e = "already" /\ Key(r.log[n], package)))
        /\ is_package_installed(fs, package.name, None) => VersionDirs(fs, package.name) # {}

\* C29: once the install of a package with a source locator has succeeded
\* within a call, every later occurrence of the same (name, version) in the
\* call is answered by the existence check alone, so its artifact is
\* fetched and verified at most once in the call.
C29_FetchedOnce ==
    \A i \in LogIdx :
        LET ev == last.log[i] IN
        (ev.e = "done" /\ PkgByKey(ev.n, ev.v).source # None)
            => /\ \A j \in LogIdx :
                     (j > i /\ last.log[j].e = "check" /\ last.log[j].n = ev.n /\ last.log[j].v = ev.v)
                         => /\ j < Len(last.log)
                            /\ last.log[j + 1].e = "already"
                            /\ last.log[j + 1].n = ev.n /\ last.log[j + 1].v = ev.v
               /\ \A e \in {"fetch", "verify"} :
                     Cardinality({j \in LogIdx : last.log[j].e = e /\ last.log[j].n = ev.n
                                                 /\ last.log[j].v = ev.v}) <= 1

C29_Witness ==
    /\ last.op = "install" /\ last.arg = PkgMeta /\ last.ok
    /\ \E i, j \in LogIdx :
          /\ i < j
          /\ last.log[i].e = "done" /\ Key(last.log[i], PkgLib)
          /\ last.log[j].e = "enter" /\ Key(last.log[j], PkgLib)
    /\ Cardinality({j \in LogIdx : last.log[j].e = "fetch" /\ Key(last.log[j], PkgLib)}) = 1

\* C30: install_app installs the packages of app.packages in list order and
\* changes no link before every one of them has installed; when a package
\* fails the call fails with every link as it was before the call; every
\* link the call sets points into the directory of the first package.
C30_LinksAfterPackages ==
    [][last'.op = "install_app"
          => LET app == last'.arg
                 log == last'.log
                 Installed(k, until) == \E j \in 1..until : Completes(log[j], app.packages[k])
                 AllInstalled(until) == \A k \in 1..Len(app.packages) : Installed(k, until)
             IN  /\ \A k \in 2..Len(app.packages) :
                       \A j \in 1..Len(log) :
                           (log[j].e = "enter" /\ Key(log[j], app.packages[k]))
                               => Installed(k - 1, j - 1)
                 /\ \A i \in 1..Len(log) :
                       log[i].e \in {"found", "notfound", "link", "linkfail"} => AllInstalled(i - 1)
                 /\ links' # links => AllInstalled(Len(log))
                 /\ ~AllInstalled(Len(log))
                       => /\ ~last'.ok
                          /\ links' = links
                          /\ \A i \in 1..Len(log) : log[i].e # "link"
                 /\ \A c \in CommandNames :
                       links'[c] # links[c]
                           => /\ links'[c] # Absent
                              /\ IsPrefix(PackageDir(app.packages[1]), links'[c])]_vars

----------------------------------------------------------------------------
(* Properties of the provider set *)

\* C27: the provider set never holds two providers of one name; add_provider
\* always succeeds and stores its argument in place of the provider that
\* had the name, if any; remove_provider always succeeds, removes the
\* provider of the name and leaves the set unchanged when the name is absent.
C27_ProviderSet ==
    [][/\ \A p, q \in providers' : p.name = q.name => p = q
       /\ out'.op = "add_provider"
             => /\ out'.ok /\ out'.err.kind = "none"
                /\ providers' = {p \in providers : p.name # out'.arg.name} \cup {out'.arg}
       /\ out'.op = "remove_provider"
             => /\ out'.ok /\ out'.err.kind = "none"
                /\ providers' = {p \in providers : p.name # out'.arg}
                /\ (\A p \in providers : p.name # out'.arg) => providers' = providers]_vars

C27_Witness ==
    /\ out.op = "add_provider" /\ out.ok
    /\ out.provider # NoProvider /\ out.provider # out.arg
    /\ out.provider.name = out.arg.name
    /\ out.arg \in providers /\ out.provider \notin providers
    /\ Cardinality(providers) = 3

----------------------------------------------------------------------------
(* Properties of the synchronisation *)

\* the part of a tree at and below a directory
Below(f, dir) == [q \in {x \in DOMAIN f : IsPrefix(dir, x)} |-> f[q]]

\* every file below src in the tree f is at the same relative path below
\* dst in the tree g with the same content, every directory below src is a
\* directory below dst, and src is in g as it is in f
Copied(f, g, src, dst) ==
    /\ \A q \in DOMAIN f :
          (IsPrefix(src, q) /\ q # src)
              => LET p == SubSeq(q, Len(src) + 1, Len(q)) IN
                 IF f[q].k = "file"
                 THEN IsFile(g, dst \o p) /\ g[RealPath(g, dst \o p)].c = f[q].c
                 ELSE IsDir(g, dst \o p)
    /\ Below(g, src) = Below(f, src)

\* C26: copy_dir_contents fails with InvalidInput when src is not a
\* directory; when it succeeds every file below src is at the same relative
\* path below dst with the same content, every subdirectory of src is below
\* dst and src is unchanged.  sync_goinfre_from_sgoinfre copies sgoinfre to
\* goinfre in that way, and succeeds changing nothing when either is unset.
C26_CopyDirContents ==
    [][/\ last'.op = "copy_dir_contents"
             => /\ ~IsDir(fs, last'.arg.src)
                      => ~last'.ok /\ last'.err.kind = "InvalidInput"
                /\ last'.ok => Copied(fs, fs', last'.arg.src, last'.arg.dst)
       /\ last'.op = "sync"
             => IF last'.arg.sgoinfre_dir = Unset \/ last'.arg.goinfre_dir = Unset
                THEN last'.ok /\ fs' = fs
                ELSE (last'.ok /\ IsDir(fs, last'.arg.sgoinfre_dir))
                         => Copied(fs, fs', last'.arg.sgoinfre_dir, last'.arg.goinfre_dir)]_vars

----------------------------------------------------------------------------
(* Properties of the serialization *)

====
